---- MODULE Spec2Model ----
(***************************************************************************)
(* State-machine model of the REST API: JWT session middleware, the auth   *)
(* handlers (register, login, logout, me, legacy login), and the health    *)
(* record handlers (create, list, stats, delete) over a Redis store with   *)
(* per-key TTL, the rate limiter and the CSRF token scaffold.               *)
(*                                                                          *)
(* Strings that end up inside Redis keys are modelled as non-empty         *)
(* sequences of colon-free atoms: "a:b" is <<"a","b">>, "" is <<"">>, and   *)
(* fmt.Sprintf("x:%s:%s", p, q) is <<"x">> \o p \o q.                       *)
(* Time is counted in minutes.                                              *)
(***************************************************************************)
EXTENDS Integers, Sequences, FiniteSets, TLC

VARIABLES rdb, now, ticks, nextUUID, tokens, last, limiter, flight, csrfTokenStore

vars == <<rdb, now, ticks, nextUUID, tokens, last, limiter, flight, csrfTokenStore>>

----------------------------------------------------------------------------
(* Bounds of the model *)

MaxUUID == 2
MaxTicks == 1
MaxTokens == 1
MaxArrivals == 61
MaxRateClock == 6
MaxExpiries == 2
MaxFlight == 2
BulkOver == 2

----------------------------------------------------------------------------
(* Program constants *)

Minute == 1
Hour == 60 * Minute
JWTExpiry == 1 * Hour
ExpiresIn == 3600
UserTTL == 24 * Hour
RecordTTL == 30 * 24 * Hour
CSRFTokenExpiry == 15 * Minute
StatsTTL == 1 * Hour
DefaultLimit == 20
MaxLimit == 100
MinPasswordLen == 8
MinNameLen == 3
MinValue == 0
MaxValue == 500
bcryptCost == 12

RecordTypes ==
    {<<"blood_pressure">>, <<"heart_rate">>, <<"weight">>, <<"temperature">>, <<"glucose">>}

JWTSecret == "your-secret-key-change-me-in-production"

EmptyStr == <<"">>

----------------------------------------------------------------------------
(* Redis: a map from key to [type, str, list, exp].  A key that is absent  *)
(* from DOMAIN db does not exist.  Every command fails, changing nothing,  *)
(* when the server is unreachable (up = FALSE).                             *)

NoTTL == -1
NoJSON == [json |-> "none"]

StringVal(v, exp) == [type |-> "string", str |-> v, list |-> <<>>, exp |-> exp]
ListVal(l, exp) == [type |-> "list", str |-> NoJSON, list |-> l, exp |-> exp]

Exists(db, k) == k \in DOMAIN db

Without(db, k) == [x \in DOMAIN db \ {k} |-> db[x]]
With(db, k, v) == [x \in DOMAIN db \cup {k} |-> IF x = k THEN v ELSE db[x]]

\* GET: redis.Nil for a missing key, WRONGTYPE for a list, an error when down.
RGet(db, k, up) ==
    IF up /\ Exists(db, k) /\ db[k].type = "string"
    THEN [err |-> FALSE, val |-> db[k].str]
    ELSE [err |-> TRUE, val |-> NoJSON]

\* SET key value EX ttl: overwrites whatever the key held.
\* SET ... NX, which the code does not use: the write is dropped when the key
\* is already there.
RSet_NX(db, k, v, exp, up) ==
    IF ~up THEN [db |-> db, err |-> TRUE]
    ELSE IF Exists(db, k) THEN [db |-> db, err |-> FALSE]
    ELSE [db |-> With(db, k, StringVal(v, exp)), err |-> FALSE]

RSet(db, k, v, exp, up) ==
    IF up THEN [err |-> FALSE, db |-> With(db, k, StringVal(v, exp))]
    ELSE [err |-> TRUE, db |-> db]

\* DEL: removing a missing key is no error.
RDel(db, k, up) ==
    IF up THEN [err |-> FALSE, db |-> Without(db, k)]
    ELSE [err |-> TRUE, db |-> db]

\* RPUSH, which the code does not use: the value goes to the tail of the list.
RLPush_Tail(db, k, v, up) ==
    IF ~up THEN [err |-> TRUE, db |-> db]
    ELSE IF ~Exists(db, k) THEN [err |-> FALSE, db |-> With(db, k, ListVal(<<v>>, NoTTL))]
    ELSE IF db[k].type # "list" THEN [err |-> TRUE, db |-> db]
    ELSE [err |-> FALSE, db |-> With(db, k, ListVal(db[k].list \o <<v>>, db[k].exp))]

\* LPUSH: creates the list (no TTL) when the key is missing.
RLPush(db, k, v, up) ==
    IF ~up THEN [err |-> TRUE, db |-> db]
    ELSE IF ~Exists(db, k) THEN [err |-> FALSE, db |-> With(db, k, ListVal(<<v>>, NoTTL))]
    ELSE IF db[k].type # "list" THEN [err |-> TRUE, db |-> db]
    ELSE [err |-> FALSE, db |-> With(db, k, ListVal(<<v>> \o db[k].list, db[k].exp))]

\* EXPIRE: sets the key's time to live when the key exists.
RExpire(db, k, exp, up) ==
    IF up /\ Exists(db, k)
    THEN [err |-> FALSE, db |-> With(db, k, [db[k] EXCEPT !.exp = exp])]
    ELSE [err |-> ~up, db |-> db]

\* LRANGE key start stop, both inclusive, negative indexes count from the tail.
RLRange(db, k, start, stop, up) ==
    IF ~up THEN [err |-> TRUE, val |-> <<>>]
    ELSE IF ~Exists(db, k) THEN [err |-> FALSE, val |-> <<>>]
    ELSE IF db[k].type # "list" THEN [err |-> TRUE, val |-> <<>>]
    ELSE LET l == db[k].list
             n == Len(l)
             s0 == IF start < 0 THEN n + start ELSE start
             e0 == IF stop < 0 THEN n + stop ELSE stop
             s == IF s0 < 0 THEN 0 ELSE s0
             e == IF e0 >= n THEN n - 1 ELSE e0
         IN  IF s > e0 \/ s >= n
             THEN [err |-> FALSE, val |-> <<>>]
             ELSE [err |-> FALSE, val |-> SubSeq(l, s + 1, e + 1)]

RECURSIVE RemoveFirst(_, _)
RemoveFirst(l, v) ==
    IF l = <<>> THEN <<>>
    ELSE IF Head(l) = v THEN Tail(l)
    ELSE <<Head(l)>> \o RemoveFirst(Tail(l), v)

\* LREM key 1 value: removes the first occurrence; an emptied list is deleted.
RLRem(db, k, v, up) ==
    IF ~up THEN [err |-> TRUE, db |-> db]
    ELSE IF ~Exists(db, k) THEN [err |-> FALSE, db |-> db]
    ELSE IF db[k].type # "list" THEN [err |-> TRUE, db |-> db]
    ELSE LET l == RemoveFirst(db[k].list, v)
         IN  IF l = <<>> THEN [err |-> FALSE, db |-> Without(db, k)]
             ELSE [err |-> FALSE, db |-> With(db, k, ListVal(l, db[k].exp))]

\* Keys whose time to live has run out at time t are gone.
Purge(db, t) ==
    [k \in {x \in DOMAIN db : db[x].exp = NoTTL \/ t < db[x].exp} |-> db[k]]

----------------------------------------------------------------------------
(* Key construction *)

UserKey(email) == <<"user">> \o email
RecordKey(userID, id) == <<"health">> \o userID \o id
ListKey(userID) == <<"health">> \o userID \o <<"list">>
StatsKey(userID, recordType) == <<"health">> \o userID \o <<"stats">> \o recordType

----------------------------------------------------------------------------
(* encoding/json *)

InvalidUTF8 == "<ff>"
ReplacementChar == "<fffd>"

\* json.Marshal and json.Unmarshal coerce invalid UTF-8 in a string to U+FFFD.
JSONString(s) == [i \in DOMAIN s |-> IF s[i] = InvalidUTF8 THEN ReplacementChar ELSE s[i]]

\* A field of a decoded JSON object, or the Go zero value when it is missing.
Field(j, name, zero) == IF name \in DOMAIN j THEN j[name] ELSE zero

----------------------------------------------------------------------------
(* Password hashing *)

NoHash == [alg |-> "", pw |-> "", cost |-> 0]

HashPassword(password) == [alg |-> "bcrypt", pw |-> password, cost |-> bcryptCost]

\* bcrypt.CompareHashAndPassword fails on anything that is not a bcrypt hash.
VerifyPassword(hash, password) == hash.alg = "bcrypt" /\ hash.pw = password

----------------------------------------------------------------------------
(* User model *)

NewUser(id, email, hash, fullName, t) ==
    [ID |-> id, Email |-> email, Password |-> hash, FullName |-> fullName,
     Active |-> TRUE, CreatedAt |-> t, UpdatedAt |-> t]

\* The Password field is tagged json:"-": it is not part of the JSON document.
MarshalUser(u) ==
    [json |-> "object", id |-> JSONString(u.ID), email |-> JSONString(u.Email),
     full_name |-> u.FullName, active |-> u.Active,
     created_at |-> u.CreatedAt, updated_at |-> u.UpdatedAt]

UnmarshalUser(j) ==
    [ID |-> Field(j, "id", EmptyStr), Email |-> Field(j, "email", EmptyStr),
     Password |-> NoHash, FullName |-> Field(j, "full_name", ""),
     Active |-> Field(j, "active", FALSE),
     CreatedAt |-> Field(j, "created_at", 0), UpdatedAt |-> Field(j, "updated_at", 0)]

\* The user object of an AuthResponse: id, email, full_name and active only.
PublicUser(u) == [id |-> u.ID, email |-> u.Email, full_name |-> u.FullName, active |-> u.Active]

----------------------------------------------------------------------------
(* Input validation (go-playground/validator tags) *)

EmailA == <<"a@x.io">>
EmailB == <<"b@x.io">>

IsEmail(e) == e \in {EmailA, EmailB}

StrLen(s) ==
    CASE s = "" -> 0
      [] s = "Al" -> 2
      [] s = "short" -> 5
      [] s = "Alice" -> 5
      [] s = "password1" -> 9
      [] s = "password2" -> 9

\* RegisterRequest: email required,email; password required,min=8; full_name required,min=3
ValidRegisterRequest(req) ==
    /\ req.email # EmptyStr /\ IsEmail(req.email)
    /\ req.password # "" /\ StrLen(req.password) >= MinPasswordLen
    /\ req.full_name # "" /\ StrLen(req.full_name) >= MinNameLen

\* LoginRequest: email required,email; password required
ValidLoginRequest(req) ==
    /\ req.email # EmptyStr /\ IsEmail(req.email)
    /\ req.password # ""

\* UserInput: email required,email; name required,min=3
ValidUserInput(in) ==
    /\ in.email # EmptyStr /\ IsEmail(in.email)
    /\ in.name # "" /\ StrLen(in.name) >= MinNameLen

\* HealthRecordInput: type required,oneof; value required,min=0,max=500; unit required.
\* "required" rejects the zero value of the field's type.
ValidHealthRecordInput(input) ==
    /\ input.Type # EmptyStr /\ input.Type \in RecordTypes
    /\ input.Value # 0 /\ input.Value >= MinValue /\ input.Value <= MaxValue
    /\ input.Unit # ""

----------------------------------------------------------------------------
(* JWT (golang-jwt/jwt v4, HS256) *)

GetJWTSecret == JWTSecret

\* The signing methods a []byte key verifies: the key function of jwtMiddleware
\* returns the secret whatever method the token names.
HMACMethods == {"HS256", "HS384", "HS512"}

HMAC(alg, payload, key) == [alg |-> alg, payload |-> payload, key |-> key]

\* generateJWT as it would be if it signed with a key other than the one
\* jwtMiddleware verifies with.
generateJWT_OtherKey(userID, t) ==
    LET payload == [sub |-> JSONString(userID), exp |-> t + JWTExpiry]
    IN  [form |-> "jws", alg |-> "HS256", payload |-> payload,
         mac |-> HMAC("HS256", payload, "other-key")]

generateJWT(userID, t) ==
    LET claims == [Subject |-> userID, ExpiresAt |-> t + JWTExpiry]
        payload == [sub |-> JSONString(claims.Subject), exp |-> claims.ExpiresAt]
    IN  [form |-> "jws", alg |-> "HS256", payload |-> payload,
         mac |-> HMAC("HS256", payload, GetJWTSecret)]

\* ParseWithClaims as it would be without claims validation (no expiry check).
ParseWithClaims_NoExpiry(tokenStr, t) ==
    IF tokenStr.form # "jws" THEN [err |-> TRUE, Subject |-> EmptyStr]
    ELSE IF tokenStr.alg \notin HMACMethods THEN [err |-> TRUE, Subject |-> EmptyStr]
    ELSE IF tokenStr.mac # HMAC(tokenStr.alg, tokenStr.payload, GetJWTSecret)
    THEN [err |-> TRUE, Subject |-> EmptyStr]
    ELSE [err |-> FALSE, Subject |-> tokenStr.payload.sub]

\* jwt.ParseWithClaims followed by token.Valid: the token must be a well-formed
\* JWS, signed with an HMAC method under the secret, and not expired.
ParseWithClaims(tokenStr, t) ==
    IF tokenStr.form # "jws" THEN [err |-> TRUE, Subject |-> EmptyStr]
    ELSE IF tokenStr.alg \notin HMACMethods THEN [err |-> TRUE, Subject |-> EmptyStr]
    ELSE IF tokenStr.mac # HMAC(tokenStr.alg, tokenStr.payload, GetJWTSecret)
    THEN [err |-> TRUE, Subject |-> EmptyStr]
    ELSE IF ~(t < tokenStr.payload.exp) THEN [err |-> TRUE, Subject |-> EmptyStr]
    ELSE [err |-> FALSE, Subject |-> tokenStr.payload.sub]

Unauthorized == [status |-> 401, body |-> [text |-> "Unauthorized"]]

\* jwtMiddleware as it would be if the return after http.Error were missing:
\* the 401 is written and the handler runs all the same.
jwtMiddleware_NoReturn(authHeader, t) ==
    IF authHeader.prefix # "Bearer "
    THEN [next |-> TRUE, user |-> EmptyStr, resp |-> Unauthorized]
    ELSE LET parsed == ParseWithClaims(authHeader.token, t)
         IN  [next |-> TRUE, user |-> parsed.Subject, resp |-> Unauthorized]

\* The Authorization header is [prefix, token]: prefix is what precedes the
\* credentials ("Bearer " for a bearer token, "" for a missing header).
jwtMiddleware(authHeader, t) ==
    IF authHeader.prefix # "Bearer "
    THEN [next |-> FALSE, user |-> EmptyStr, resp |-> Unauthorized]
    ELSE LET parsed == ParseWithClaims(authHeader.token, t)
         IN  IF parsed.err
             THEN [next |-> FALSE, user |-> EmptyStr, resp |-> Unauthorized]
             ELSE [next |-> TRUE, user |-> parsed.Subject, resp |-> Unauthorized]

----------------------------------------------------------------------------
(* Handlers.  A handler maps the store, the clock and the request to        *)
(* [db, resp, ops, uuids]: the store it leaves, the response, the Redis     *)
(* commands it issued in order, and how many UUIDs it drew.  fail is the    *)
(* set of Redis commands that fail during the request.                      *)

AllCommands == {"GET", "SET", "DEL", "LPUSH", "EXPIRE", "LRANGE", "LREM"}

Up(fail, cmd) == cmd \notin fail

Op(cmd, key) == [cmd |-> cmd, key |-> key]

Done(db, resp, ops, uuids) == [db |-> db, resp |-> resp, ops |-> ops, uuids |-> uuids]

Resp(status, body) == [status |-> status, body |-> body]

ErrorBody(msg) == [error |-> msg]

\* ValidateRequestSize: a body over MaxRequestBodySize is answered 413.
TooLarge == Resp(413, [text |-> "Request body too large"])

\* registerHandler as it would be without the presence check on the email.
registerHandler_NoPresenceCheck(db, t, id, req, fail) ==
    IF req.size = "oversize" THEN Done(db, TooLarge, <<>>, 0)
    ELSE IF req.json = "bad" THEN Done(db, Resp(400, ErrorBody("Invalid request body")), <<>>, 0)
    ELSE IF ~ValidRegisterRequest(req) THEN Done(db, Resp(400, ErrorBody("validation")), <<>>, 0)
    ELSE
    LET userKey == UserKey(req.email)
        user == NewUser(id, req.email, HashPassword(req.password), req.full_name, t)
        stored == RSet(db, userKey, MarshalUser(user), t + UserTTL, Up(fail, "SET"))
        ops == <<Op("SET", userKey)>>
    IN  IF stored.err
        THEN Done(db, Resp(500, ErrorBody("Failed to register user")), ops, 1)
        ELSE Done(stored.db,
                  Resp(201, [token |-> generateJWT(user.ID, t),
                             expires_in |-> ExpiresIn,
                             user |-> PublicUser(user)]),
                  ops, 1)

\* registerHandler as it would behave if generateJWT returned an error: the
\* 500 of token issuance follows the SET of the user record.
registerHandler_TokenFails(db, t, id, req, fail) ==
    IF req.size = "oversize" THEN Done(db, TooLarge, <<>>, 0)
    ELSE IF req.json = "bad" THEN Done(db, Resp(400, ErrorBody("Invalid request body")), <<>>, 0)
    ELSE IF ~ValidRegisterRequest(req) THEN Done(db, Resp(400, ErrorBody("validation")), <<>>, 0)
    ELSE
    LET userKey == UserKey(req.email)
        found == RGet(db, userKey, Up(fail, "GET"))
    IN  IF ~found.err
        THEN Done(db, Resp(409, ErrorBody("Email already registered")), <<Op("GET", userKey)>>, 0)
        ELSE
        LET user == NewUser(id, req.email, HashPassword(req.password), req.full_name, t)
            stored == RSet(db, userKey, MarshalUser(user), t + UserTTL, Up(fail, "SET"))
            ops == <<Op("GET", userKey), Op("SET", userKey)>>
        IN  IF stored.err
            THEN Done(db, Resp(500, ErrorBody("Failed to register user")), ops, 1)
            ELSE Done(stored.db, Resp(500, ErrorBody("Failed to generate token")), ops, 1)

\* POST /api/v1/auth/register
registerHandler(db, t, id, req, fail) ==
    IF req.size = "oversize" THEN Done(db, TooLarge, <<>>, 0)
    ELSE IF req.json = "bad" THEN Done(db, Resp(400, ErrorBody("Invalid request body")), <<>>, 0)
    ELSE IF ~ValidRegisterRequest(req) THEN Done(db, Resp(400, ErrorBody("validation")), <<>>, 0)
    ELSE
    LET userKey == UserKey(req.email)
        found == RGet(db, userKey, Up(fail, "GET"))
    IN  IF ~found.err
        THEN Done(db, Resp(409, ErrorBody("Email already registered")), <<Op("GET", userKey)>>, 0)
        ELSE
        LET hashedPassword == HashPassword(req.password)
            user == NewUser(id, req.email, hashedPassword, req.full_name, t)
            userJSON == MarshalUser(user)
            stored == RSet(db, userKey, userJSON, t + UserTTL, Up(fail, "SET"))
            ops == <<Op("GET", userKey), Op("SET", userKey)>>
        IN  IF stored.err
            THEN Done(db, Resp(500, ErrorBody("Failed to register user")), ops, 1)
            ELSE Done(stored.db,
                      Resp(201, [token |-> generateJWT(user.ID, t),
                                 expires_in |-> ExpiresIn,
                                 user |-> PublicUser(user)]),
                      ops, 1)

InvalidCredentials == Resp(401, ErrorBody("Invalid email or password"))

\* loginHandler as it would be if an unknown email were answered on its own.
loginHandler_UserNotFound(db, t, req, fail) ==
    IF req.size = "oversize" THEN Done(db, TooLarge, <<>>, 0)
    ELSE IF req.json = "bad" THEN Done(db, Resp(400, ErrorBody("Invalid request body")), <<>>, 0)
    ELSE IF ~ValidLoginRequest(req) THEN Done(db, Resp(400, ErrorBody("validation")), <<>>, 0)
    ELSE
    LET userKey == UserKey(req.email)
        found == RGet(db, userKey, Up(fail, "GET"))
        ops == <<Op("GET", userKey)>>
    IN  IF found.err THEN Done(db, Resp(404, ErrorBody("User not found")), ops, 0)
        ELSE
        LET user == UnmarshalUser(found.val)
        IN  IF ~VerifyPassword(user.Password, req.password)
            THEN Done(db, InvalidCredentials, ops, 0)
            ELSE IF ~user.Active
            THEN Done(db, Resp(403, ErrorBody("User account is inactive")), ops, 0)
            ELSE Done(db,
                      Resp(200, [token |-> generateJWT(user.ID, t),
                                 expires_in |-> ExpiresIn,
                                 user |-> PublicUser(user)]),
                      ops, 0)

\* POST /api/v1/auth/login
loginHandler(db, t, req, fail) ==
    IF req.size = "oversize" THEN Done(db, TooLarge, <<>>, 0)
    ELSE IF req.json = "bad" THEN Done(db, Resp(400, ErrorBody("Invalid request body")), <<>>, 0)
    ELSE IF ~ValidLoginRequest(req) THEN Done(db, Resp(400, ErrorBody("validation")), <<>>, 0)
    ELSE
    LET userKey == UserKey(req.email)
        found == RGet(db, userKey, Up(fail, "GET"))
        ops == <<Op("GET", userKey)>>
    IN  IF found.err THEN Done(db, InvalidCredentials, ops, 0)
        ELSE
        LET user == UnmarshalUser(found.val)
        IN  IF ~VerifyPassword(user.Password, req.password)
            THEN Done(db, InvalidCredentials, ops, 0)
            ELSE IF ~user.Active
            THEN Done(db, Resp(403, ErrorBody("User account is inactive")), ops, 0)
            ELSE Done(db,
                      Resp(200, [token |-> generateJWT(user.ID, t),
                                 expires_in |-> ExpiresIn,
                                 user |-> PublicUser(user)]),
                      ops, 0)

\* logoutHandler as it would be if logging out dropped the user's index.
logoutHandler_DropsIndex(db, t, userID) ==
    Done(Without(db, ListKey(userID)), Resp(200, [message |-> "Logged out successfully"]),
         <<Op("DEL", ListKey(userID))>>, 0)

\* POST /api/v1/auth/logout
logoutHandler(db, t, userID) ==
    Done(db, Resp(200, [message |-> "Logged out successfully"]), <<>>, 0)

\* GET /api/v1/auth/me
meHandler(db, t, userID) ==
    Done(db, Resp(200, [user_id |-> userID, status |-> "authenticated"]), <<>>, 0)

\* POST /login (legacy): a token for whatever user name the body carries.
legacyLoginHandler(db, t, payload) ==
    IF payload.json = "bad" \/ JSONString(payload.user) = EmptyStr
    THEN Done(db, Resp(400, [text |-> "invalid body"]), <<>>, 0)
    ELSE Done(db, Resp(200, [token |-> generateJWT(JSONString(payload.user), t)]), <<>>, 0)

\* POST /user (legacy, protected)
createUserHandler(db, t, userID, in) ==
    IF in.json = "bad" THEN Done(db, Resp(400, [text |-> "invalid json"]), <<>>, 0)
    ELSE IF ~ValidUserInput(in) THEN Done(db, Resp(400, ErrorBody("validation")), <<>>, 0)
    ELSE Done(db, Resp(201, [message |-> "user created", email |-> in.email]), <<>>, 0)

----------------------------------------------------------------------------
(* Health record model *)

ZeroTime == -1

MarshalRecord(r) ==
    [json |-> "object", id |-> JSONString(r.ID), user_id |-> JSONString(r.UserID),
     type |-> JSONString(r.Type), value |-> r.Value, unit |-> r.Unit, notes |-> r.Notes,
     recorded_at |-> r.RecordedAt, created_at |-> r.CreatedAt]

UnmarshalRecord(j) ==
    [ID |-> Field(j, "id", EmptyStr), UserID |-> Field(j, "user_id", EmptyStr),
     Type |-> Field(j, "type", EmptyStr), Value |-> Field(j, "value", 0),
     Unit |-> Field(j, "unit", ""), Notes |-> Field(j, "notes", ""),
     RecordedAt |-> Field(j, "recorded_at", ZeroTime),
     CreatedAt |-> Field(j, "created_at", ZeroTime)]

RECURSIVE GCD(_, _)
GCD(a, b) == IF b = 0 THEN a ELSE GCD(b, a % b)

\* A float64 quotient, kept exact as a reduced fraction.
Quotient(a, b) == LET g == GCD(a, b) IN [num |-> a \div g, den |-> b \div g]

ZeroFloat == [num |-> 0, den |-> 1]

ZeroStats ==
    [UserID |-> EmptyStr, Type |-> EmptyStr, Average |-> ZeroFloat, Min |-> 0, Max |-> 0,
     Count |-> 0, LastRecord |-> ZeroTime]

MarshalStats(st) ==
    [json |-> "object", user_id |-> JSONString(st.UserID), type |-> JSONString(st.Type),
     average |-> st.Average, min |-> st.Min, max |-> st.Max, count |-> st.Count,
     last_record |-> st.LastRecord]

UnmarshalStats(j) ==
    [UserID |-> Field(j, "user_id", EmptyStr), Type |-> Field(j, "type", EmptyStr),
     Average |-> Field(j, "average", ZeroFloat), Min |-> Field(j, "min", 0),
     Max |-> Field(j, "max", 0), Count |-> Field(j, "count", 0),
     LastRecord |-> Field(j, "last_record", ZeroTime)]

----------------------------------------------------------------------------
(* Helper functions for statistics *)

RECURSIVE SumOf(_)
SumOf(values) == IF values = <<>> THEN 0 ELSE Head(values) + SumOf(Tail(values))

calculateAverage(values) ==
    IF Len(values) = 0 THEN ZeroFloat ELSE Quotient(SumOf(values), Len(values))

RECURSIVE MinFrom(_, _)
MinFrom(min, values) ==
    IF values = <<>> THEN min
    ELSE MinFrom(IF Head(values) < min THEN Head(values) ELSE min, Tail(values))

calculateMin(values) == IF Len(values) = 0 THEN 0 ELSE MinFrom(values[1], values)

RECURSIVE MaxFrom(_, _)
MaxFrom(max, values) ==
    IF values = <<>> THEN max
    ELSE MaxFrom(IF Head(values) > max THEN Head(values) ELSE max, Tail(values))

calculateMax(values) == IF Len(values) = 0 THEN 0 ELSE MaxFrom(values[1], values)

RECURSIVE LatestFrom(_, _)
LatestFrom(lastRecord, records) ==
    IF records = <<>> THEN lastRecord
    ELSE LatestFrom(IF Head(records).RecordedAt > lastRecord
                    THEN Head(records).RecordedAt ELSE lastRecord, Tail(records))

\* The loop over record ids: GET each record key, keep what decodes.
FetchRecords(db, userID, ids, fail) ==
    LET got(id) == RGet(db, RecordKey(userID, id), Up(fail, "GET"))
        found == SelectSeq(ids, LAMBDA id : ~got(id).err)
    IN  [i \in DOMAIN found |-> UnmarshalRecord(got(found[i]).val)]

FetchOps(userID, ids) == [i \in DOMAIN ids |-> Op("GET", RecordKey(userID, ids[i]))]

\* OfType as it would be without the comparison of record.Type.
OfType_Any(records, recordType) == records

OfType(records, recordType) ==
    SelectSeq(records, LAMBDA r : r.Type = recordType)

ValuesOf(records) == [i \in DOMAIN records |-> records[i].Value]

----------------------------------------------------------------------------
(* Health data handlers *)

\* time.Parse(time.RFC3339, req.RecordedAt), falling back to time.Now().
ParseRecordedAt(recordedAt, t) ==
    IF recordedAt.text = "rfc3339" THEN recordedAt.t ELSE t

\* createHealthRecordHandler as it would be without the DEL of the stats key.
createHealthRecordHandler_NoInvalidate(db, t, userID, id, req, fail) ==
    IF req.size = "oversize" THEN Done(db, TooLarge, <<>>, 0)
    ELSE IF req.json = "bad" THEN Done(db, Resp(400, ErrorBody("Invalid request body")), <<>>, 0)
    ELSE
    LET input == [Type |-> req.type, Value |-> req.value, Unit |-> req.unit]
    IN  IF ~ValidHealthRecordInput(input)
        THEN Done(db, Resp(400, ErrorBody("validation")), <<>>, 0)
        ELSE
        LET record == [ID |-> id, UserID |-> userID, Type |-> req.type, Value |-> req.value,
                       Unit |-> req.unit, Notes |-> req.notes,
                       RecordedAt |-> ParseRecordedAt(req.recorded_at, t), CreatedAt |-> t]
            recordKey == RecordKey(userID, record.ID)
            set == RSet(db, recordKey, MarshalRecord(record), t + RecordTTL, Up(fail, "SET"))
        IN  IF set.err
            THEN Done(db, Resp(500, ErrorBody("Failed to create record")),
                      <<Op("SET", recordKey)>>, 1)
            ELSE
            LET listKey == ListKey(userID)
                pushed == RLPush(set.db, listKey, record.ID, Up(fail, "LPUSH"))
                expired == RExpire(pushed.db, listKey, t + RecordTTL, Up(fail, "EXPIRE"))
            IN  Done(expired.db, Resp(201, record),
                     <<Op("SET", recordKey), Op("LPUSH", listKey), Op("EXPIRE", listKey)>>, 1)

\* POST /api/v1/health
createHealthRecordHandler(db, t, userID, id, req, fail) ==
    IF req.size = "oversize" THEN Done(db, TooLarge, <<>>, 0)
    ELSE IF req.json = "bad" THEN Done(db, Resp(400, ErrorBody("Invalid request body")), <<>>, 0)
    ELSE
    LET input == [Type |-> req.type, Value |-> req.value, Unit |-> req.unit]
    IN  IF ~ValidHealthRecordInput(input)
        THEN Done(db, Resp(400, ErrorBody("validation")), <<>>, 0)
        ELSE
        LET record == [ID |-> id, UserID |-> userID, Type |-> req.type, Value |-> req.value,
                       Unit |-> req.unit, Notes |-> req.notes,
                       RecordedAt |-> ParseRecordedAt(req.recorded_at, t), CreatedAt |-> t]
            recordKey == RecordKey(userID, record.ID)
            ttl == RecordTTL
            set == RSet(db, recordKey, MarshalRecord(record), t + ttl, Up(fail, "SET"))
        IN  IF set.err
            THEN Done(db, Resp(500, ErrorBody("Failed to create record")),
                      <<Op("SET", recordKey)>>, 1)
            ELSE
            LET listKey == ListKey(userID)
                pushed == RLPush(set.db, listKey, record.ID, Up(fail, "LPUSH"))
                expired == RExpire(pushed.db, listKey, t + ttl, Up(fail, "EXPIRE"))
                statsKey == StatsKey(userID, req.type)
                deleted == RDel(expired.db, statsKey, Up(fail, "DEL"))
            IN  Done(deleted.db, Resp(201, record),
                     <<Op("SET", recordKey), Op("LPUSH", listKey), Op("EXPIRE", listKey),
                       Op("DEL", statsKey)>>, 1)

\* fmt.Sscanf(l, "%d", &limit): limit keeps its value when l is not a number.
ParseLimit(l) ==
    IF l.text = "" THEN DefaultLimit
    ELSE LET limit == IF l.text = "int" THEN l.n ELSE DefaultLimit
         IN  IF limit > MaxLimit THEN MaxLimit ELSE limit

\* GET /api/v1/health
getHealthRecordsHandler(db, t, userID, l, fail) ==
    LET limit == ParseLimit(l)
        listKey == ListKey(userID)
        recordIDs == RLRange(db, listKey, 0, limit - 1, Up(fail, "LRANGE"))
    IN  IF recordIDs.err
        THEN Done(db, Resp(200, [records |-> <<>>]), <<Op("LRANGE", listKey)>>, 0)
        ELSE Done(db, Resp(200, [records |-> FetchRecords(db, userID, recordIDs.val, fail)]),
                  <<Op("LRANGE", listKey)>> \o FetchOps(userID, recordIDs.val), 0)

\* getHealthStatsHandler as it would be if the SET were not guarded by
\* len(values) > 0: the zero-valued result is cached as well.
getHealthStatsHandler_CachesEmpty(db, t, userID, recordType, fail) ==
    IF recordType = EmptyStr
    THEN Done(db, Resp(400, ErrorBody("Missing 'type' parameter")), <<>>, 0)
    ELSE
    LET statsKey == StatsKey(userID, recordType)
        cached == RGet(db, statsKey, Up(fail, "GET"))
    IN  IF ~cached.err
        THEN Done(db, Resp(200, [cache |-> "HIT", stats |-> UnmarshalStats(cached.val)]),
                  <<Op("GET", statsKey)>>, 0)
        ELSE
        LET listKey == ListKey(userID)
            recordIDs == RLRange(db, listKey, 0, -1, Up(fail, "LRANGE"))
            matching == OfType(FetchRecords(db, userID, recordIDs.val, fail), recordType)
            values == ValuesOf(matching)
            stats == IF Len(values) > 0
                     THEN [UserID |-> userID, Type |-> recordType,
                           Count |-> Len(values),
                           Average |-> calculateAverage(values),
                           Min |-> calculateMin(values),
                           Max |-> calculateMax(values),
                           LastRecord |-> LatestFrom(ZeroTime, matching)]
                     ELSE ZeroStats
            set == RSet(db, statsKey, MarshalStats(stats), t + StatsTTL, Up(fail, "SET"))
        IN  Done(set.db, Resp(200, [cache |-> "MISS", stats |-> stats]),
                 <<Op("GET", statsKey), Op("LRANGE", listKey)>>
                     \o FetchOps(userID, recordIDs.val) \o <<Op("SET", statsKey)>>, 0)

\* GET /api/v1/health/stats
getHealthStatsHandler(db, t, userID, recordType, fail) ==
    IF recordType = EmptyStr
    THEN Done(db, Resp(400, ErrorBody("Missing 'type' parameter")), <<>>, 0)
    ELSE
    LET statsKey == StatsKey(userID, recordType)
        cached == RGet(db, statsKey, Up(fail, "GET"))
    IN  IF ~cached.err
        THEN Done(db, Resp(200, [cache |-> "HIT", stats |-> UnmarshalStats(cached.val)]),
                  <<Op("GET", statsKey)>>, 0)
        ELSE
        LET listKey == ListKey(userID)
            recordIDs == RLRange(db, listKey, 0, -1, Up(fail, "LRANGE"))
            matching == OfType(FetchRecords(db, userID, recordIDs.val, fail), recordType)
            values == ValuesOf(matching)
            lastRecord == LatestFrom(ZeroTime, matching)
            reads == <<Op("GET", statsKey), Op("LRANGE", listKey)>>
                         \o FetchOps(userID, recordIDs.val)
        IN  IF Len(values) > 0
            THEN LET stats == [UserID |-> userID, Type |-> recordType,
                               Count |-> Len(values),
                               Average |-> calculateAverage(values),
                               Min |-> calculateMin(values),
                               Max |-> calculateMax(values),
                               LastRecord |-> lastRecord]
                     set == RSet(db, statsKey, MarshalStats(stats), t + StatsTTL,
                                 Up(fail, "SET"))
                 IN  Done(set.db, Resp(200, [cache |-> "MISS", stats |-> stats]),
                          reads \o <<Op("SET", statsKey)>>, 0)
            ELSE Done(db, Resp(200, [cache |-> "MISS", stats |-> ZeroStats]), reads, 0)

\* deleteHealthRecordHandler as it would be without the LREM on the index.
deleteHealthRecordHandler_NoLRem(db, t, userID, recordID, fail) ==
    IF recordID = EmptyStr
    THEN Done(db, Resp(400, ErrorBody("Missing 'id' parameter")), <<>>, 0)
    ELSE
    LET recordKey == RecordKey(userID, recordID)
        deleted == RDel(db, recordKey, Up(fail, "DEL"))
    IN  IF deleted.err
        THEN Done(db, Resp(500, ErrorBody("Failed to delete record")),
                  <<Op("DEL", recordKey)>>, 0)
        ELSE Done(deleted.db, Resp(200, [message |-> "Record deleted successfully"]),
                  <<Op("DEL", recordKey)>>, 0)

\* DELETE /api/v1/health?id=ID
deleteHealthRecordHandler(db, t, userID, recordID, fail) ==
    IF recordID = EmptyStr
    THEN Done(db, Resp(400, ErrorBody("Missing 'id' parameter")), <<>>, 0)
    ELSE
    LET recordKey == RecordKey(userID, recordID)
        deleted == RDel(db, recordKey, Up(fail, "DEL"))
    IN  IF deleted.err
        THEN Done(db, Resp(500, ErrorBody("Failed to delete record")),
                  <<Op("DEL", recordKey)>>, 0)
        ELSE
        LET listKey == ListKey(userID)
            removed == RLRem(deleted.db, listKey, recordID, Up(fail, "LREM"))
        IN  Done(removed.db, Resp(200, [message |-> "Record deleted successfully"]),
                 <<Op("DEL", recordKey), Op("LREM", listKey)>>, 0)

----------------------------------------------------------------------------
(* Router: which routes sit behind jwtMiddleware *)

PublicRoutes == {"register", "login", "legacyLogin"}

ProtectedRoutes == {"logout", "me", "create", "list", "stats", "delete", "createUser"}

NoUser == [next |-> TRUE, user |-> EmptyStr, resp |-> Unauthorized]

setupRouter(route, authHeader, t) ==
    IF route \in ProtectedRoutes THEN jwtMiddleware(authHeader, t) ELSE NoUser

----------------------------------------------------------------------------
(* Requests the clients send *)

\* uuid.New().String(): the n-th identifier drawn.
UUID(n) == <<ToString(n)>>

Garbage == [form |-> "garbage"]
NoAuth == [prefix |-> "", token |-> Garbage]
Bearer(tk) == [prefix |-> "Bearer ", token |-> tk]

\* The tokens the client holds.
Held == {tokens[i] : i \in DOMAIN tokens}

\* What a client without the secret can make: a token signed with its own key,
\* an unsigned token, and a held token with its payload rewritten.
SelfSigned ==
    LET payload == [sub |-> <<"admin">>, exp |-> JWTExpiry * JWTExpiry]
    IN  [form |-> "jws", alg |-> "HS256", payload |-> payload,
         mac |-> HMAC("HS256", payload, "attacker-key")]

Unsigned == [SelfSigned EXCEPT !.alg = "none", !.mac = HMAC("none", SelfSigned.payload, "")]

Tampered(tk) ==
    [tk EXCEPT !.payload = [sub |-> <<"admin">>, exp |-> tk.payload.exp + JWTExpiry]]

\* Headers that carry one of the held tokens as issued, or nothing.
BearerHeaders == {NoAuth} \cup {Bearer(tk) : tk \in Held}

\* Every kind of header jwtMiddleware has to judge.
AuthHeaders ==
    BearerHeaders
        \cup {Bearer(Garbage), Bearer(SelfSigned), Bearer(Unsigned)}
        \cup {[prefix |-> "bearer ", token |-> tk] : tk \in Held}
        \cup {Bearer(Tampered(tk)) : tk \in Held}

Oversize == [size |-> "oversize", json |-> "ok"]
BadJSON == [size |-> "ok", json |-> "bad"]

RegisterRequests ==
    [size : {"ok"}, json : {"ok"}, email : {EmailA, EmailB},
     password : {"password1", "password2"}, full_name : {"Alice"}]
        \cup [size : {"ok"}, json : {"ok"}, email : {<<"nope">>, EmptyStr},
              password : {"password1"}, full_name : {"Alice"}]
        \cup [size : {"ok"}, json : {"ok"}, email : {EmailA},
              password : {"short", ""}, full_name : {"Alice"}]
        \cup [size : {"ok"}, json : {"ok"}, email : {EmailA},
              password : {"password1"}, full_name : {"Al", ""}]
        \cup {Oversize, BadJSON}

LoginRequests ==
    [size : {"ok"}, json : {"ok"}, email : {EmailA, EmailB}, password : {"password1", "password2"}]
        \cup [size : {"ok"}, json : {"ok"}, email : {<<"nope">>}, password : {"password1"}]
        \cup [size : {"ok"}, json : {"ok"}, email : {EmailA}, password : {""}]
        \cup {Oversize, BadJSON}

LegacyPayloads ==
    [json : {"ok"}, user : {<<"admin">>, <<InvalidUTF8>>, EmptyStr}]
        \cup {[json |-> "bad", user |-> EmptyStr]}

UserInputs ==
    [json : {"ok"}, email : {EmailA, <<"nope">>}, name : {"Alice", "Al"}]
        \cup {[json |-> "bad", email |-> EmptyStr, name |-> ""]}

NoRecordedAt == [text |-> "", t |-> 0]

RecordRequest(type, value, unit, recordedAt) ==
    [size |-> "ok", json |-> "ok", type |-> type, value |-> value, unit |-> unit,
     notes |-> "", recorded_at |-> recordedAt]

RecordRequests ==
    {RecordRequest(<<"heart_rate">>, v, "u", NoRecordedAt) : v \in {-1, 0, 60, 72, 501}}
        \cup {RecordRequest(ty, 60, "u", NoRecordedAt) : ty \in {<<"weight">>, <<"mood">>, EmptyStr}}
        \cup {RecordRequest(<<"heart_rate">>, 60, "", NoRecordedAt), Oversize, BadJSON}

NoLimit == [text |-> "", n |-> 0]

LimitParams == {NoLimit, [text |-> "junk", n |-> 0]} \cup [text : {"int"}, n : {0, 1}]

TypeParams == {<<"heart_rate">>, <<"weight">>, EmptyStr}

IDParams == {UUID(n) : n \in 1..MaxUUID} \cup {EmptyStr}

NoFail == {{}}

Fails == {{}, AllCommands}

----------------------------------------------------------------------------
(* The state machine: one action per route, requests served one at a time *)

\* The rate limiter before any request, and no request in flight.
NoTraffic == [clock |-> 0, window |-> 0, prev |-> 0, curr |-> 0, served |-> 0, limited |-> 0]

NoFlight == <<>>

\* The CSRF token map as make(map[string]time.Time) leaves it.
NoCSRFTokens == [token \in {} |-> 0]

Empty == [k \in {} |-> NoJSON]

NoRequest ==
    [route |-> "none", auth |-> NoAuth, req |-> NoJSON, fail |-> {},
     next |-> FALSE, user |-> EmptyStr, resp |-> Resp(0, NoJSON), ops |-> <<>>]

Init ==
    /\ rdb = Empty
    /\ now = 0
    /\ ticks = 0
    /\ nextUUID = 1
    /\ tokens = <<>>
    /\ last = NoRequest
    /\ limiter = NoTraffic
    /\ flight = NoFlight
    /\ csrfTokenStore = NoCSRFTokens

\* The client keeps the last MaxTokens tokens it was handed.
Keep(held, resp) ==
    IF resp.status \in {200, 201} /\ "token" \in DOMAIN resp.body
       /\ resp.body.token \notin {held[i] : i \in DOMAIN held}
    THEN IF Len(held) < MaxTokens
         THEN Append(held, resp.body.token)
         ELSE Append(Tail(held), resp.body.token)
    ELSE held

\* The middleware let the request through and the handler ran.
Serve(route, auth, req, fail, mw, res) ==
    /\ res.uuids = 0 \/ nextUUID <= MaxUUID
    /\ rdb' = res.db
    /\ nextUUID' = nextUUID + res.uuids
    /\ tokens' = Keep(tokens, res.resp)
    /\ last' = [route |-> route, auth |-> auth, req |-> req, fail |-> fail,
                next |-> TRUE, user |-> mw.user, resp |-> res.resp, ops |-> res.ops]
    /\ UNCHANGED <<now, ticks, limiter, flight, csrfTokenStore>>

\* The middleware answered the request itself: the body is never read.
Reject(route, auth, mw) ==
    /\ last' = [route |-> route, auth |-> auth, req |-> NoJSON, fail |-> {},
                next |-> FALSE, user |-> EmptyStr, resp |-> mw.resp, ops |-> <<>>]
    /\ UNCHANGED <<rdb, now, ticks, nextUUID, tokens, limiter, flight, csrfTokenStore>>

Register(reqs, fails) ==
    \E req \in reqs, fail \in fails :
        Serve("register", NoAuth, req, fail, setupRouter("register", NoAuth, now),
              registerHandler(rdb, now, UUID(nextUUID), req, fail))

Login(reqs, fails) ==
    \E req \in reqs, fail \in fails :
        Serve("login", NoAuth, req, fail, setupRouter("login", NoAuth, now),
              loginHandler(rdb, now, req, fail))

LegacyLogin(payloads) ==
    \E payload \in payloads :
        Serve("legacyLogin", NoAuth, payload, {}, setupRouter("legacyLogin", NoAuth, now),
              legacyLoginHandler(rdb, now, payload))

Logout(auths) ==
    \E auth \in auths :
        LET mw == setupRouter("logout", auth, now)
        IN  IF mw.next
            THEN Serve("logout", auth, NoJSON, {}, mw, logoutHandler(rdb, now, mw.user))
            ELSE Reject("logout", auth, mw)

Me(auths) ==
    \E auth \in auths :
        LET mw == setupRouter("me", auth, now)
        IN  IF mw.next
            THEN Serve("me", auth, NoJSON, {}, mw, meHandler(rdb, now, mw.user))
            ELSE Reject("me", auth, mw)

CreateUser(auths, ins) ==
    \E auth \in auths :
        LET mw == setupRouter("createUser", auth, now)
        IN  IF mw.next
            THEN \E in \in ins :
                     Serve("createUser", auth, in, {}, mw,
                           createUserHandler(rdb, now, mw.user, in))
            ELSE Reject("createUser", auth, mw)

CreateRecord(auths, reqs, fails) ==
    \E auth \in auths :
        LET mw == setupRouter("create", auth, now)
        IN  IF mw.next
            THEN \E req \in reqs, fail \in fails :
                     Serve("create", auth, req, fail, mw,
                           createHealthRecordHandler(rdb, now, mw.user, UUID(nextUUID),
                                                     req, fail))
            ELSE Reject("create", auth, mw)

GetRecords(auths, limits, fails) ==
    \E auth \in auths :
        LET mw == setupRouter("list", auth, now)
        IN  IF mw.next
            THEN \E l \in limits, fail \in fails :
                     Serve("list", auth, l, fail, mw,
                           getHealthRecordsHandler(rdb, now, mw.user, l, fail))
            ELSE Reject("list", auth, mw)

GetStats(auths, types, fails) ==
    \E auth \in auths :
        LET mw == setupRouter("stats", auth, now)
        IN  IF mw.next
            THEN \E recordType \in types, fail \in fails :
                     Serve("stats", auth, recordType, fail, mw,
                           getHealthStatsHandler(rdb, now, mw.user, recordType, fail))
            ELSE Reject("stats", auth, mw)

DeleteRecord(auths, ids, fails) ==
    \E auth \in auths :
        LET mw == setupRouter("delete", auth, now)
        IN  IF mw.next
            THEN \E recordID \in ids, fail \in fails :
                     Serve("delete", auth, recordID, fail, mw,
                           deleteHealthRecordHandler(rdb, now, mw.user, recordID, fail))
            ELSE Reject("delete", auth, mw)

\* Time passes; Redis drops the keys whose time to live has run out.
Advance(steps) ==
    \E d \in steps :
        /\ ticks < MaxTicks
        /\ now' = now + d
        /\ ticks' = ticks + 1
        /\ rdb' = Purge(rdb, now + d)
        /\ UNCHANGED <<nextUUID, tokens, last, limiter, flight, csrfTokenStore>>

----------------------------------------------------------------------------
(* Spec: every route of the router, every kind of Authorization header,     *)
(* one well-formed body per route.                                          *)

OneRegister == {[size |-> "ok", json |-> "ok", email |-> EmailA, password |-> "password1",
                 full_name |-> "Alice"]}
OneLogin == {[size |-> "ok", json |-> "ok", email |-> EmailA, password |-> "password1"]}
OneUserInput == {[json |-> "ok", email |-> EmailA, name |-> "Alice"]}
OneRecord == {RecordRequest(<<"heart_rate">>, 60, "u", NoRecordedAt)}

Next ==
    \/ Register(OneRegister, NoFail)
    \/ Login(OneLogin, NoFail)
    \/ LegacyLogin(LegacyPayloads)
    \/ Logout(AuthHeaders)
    \/ Me(AuthHeaders)
    \/ CreateUser(AuthHeaders, OneUserInput)
    \/ CreateRecord(AuthHeaders, OneRecord, NoFail)
    \/ GetRecords(AuthHeaders, {NoLimit}, NoFail)
    \/ GetStats(AuthHeaders, {<<"heart_rate">>}, NoFail)
    \/ DeleteRecord(AuthHeaders, {UUID(n) : n \in 1..MaxUUID}, NoFail)
    \/ Advance({30 * Minute, 90 * Minute})

Spec == Init /\ [][Next]_vars

----------------------------------------------------------------------------
(* SpecAuth: registration and login with every kind of body, the store up   *)
(* or down, and user records expiring.                                      *)

NextAuth ==
    \/ Register(RegisterRequests, Fails)
    \/ Login(LoginRequests, Fails)
    \/ Advance({30 * Minute, 24 * Hour})

SpecAuth == Init /\ [][NextAuth]_vars

----------------------------------------------------------------------------
(* SpecHealth: the health record routes for two users holding good tokens,  *)
(* with every kind of body and query parameter, the store up or down.       *)

OneLegacy == {[json |-> "ok", user |-> <<"admin">>]}

HealthUsers == [json : {"ok"}, user : {<<"admin">>, <<"guest">>}]

NextHealth ==
    \/ LegacyLogin(HealthUsers)
    \/ CreateRecord(BearerHeaders, RecordRequests, Fails)
    \/ GetRecords(BearerHeaders, LimitParams, Fails)
    \/ GetStats(BearerHeaders, TypeParams, Fails)
    \/ DeleteRecord(BearerHeaders, IDParams, Fails)

SpecHealth == Init /\ [][NextHealth]_vars

----------------------------------------------------------------------------
(* SpecBulk: one user whose index holds up to MaxLimit + BulkOver records   *)
(* (created at time 0, none read back yet), a second user with one record,  *)
(* and the two read routes with every kind of limit and type parameter.     *)

BulkSizes == {0, 1, 2} \cup {n \in 0..(MaxLimit + BulkOver) : n >= MaxLimit - 1}

BulkTypes == <<<<"heart_rate">>, <<"weight">>, <<"glucose">>>>

BulkRecord(userID, n) ==
    [ID |-> UUID(n), UserID |-> userID, Type |-> BulkTypes[(n % 3) + 1],
     Value |-> 50 + ((7 * n) % 11), Unit |-> "u", Notes |-> "",
     RecordedAt |-> 0, CreatedAt |-> 0]

Newest(n) == [i \in 1..n |-> UUID(n + 1 - i)]

BulkStore(n) ==
    LET admin == <<"admin">>
        guest == <<"guest">>
        mine == [k \in {RecordKey(admin, UUID(i)) : i \in 1..n} |->
                    LET i == CHOOSE i \in 1..n : RecordKey(admin, UUID(i)) = k
                    IN  StringVal(MarshalRecord(BulkRecord(admin, i)), RecordTTL)]
        index == IF n = 0 THEN mine
                 ELSE With(mine, ListKey(admin), ListVal(Newest(n), RecordTTL))
        theirs == With(index, RecordKey(guest, UUID(n + 1)),
                       StringVal(MarshalRecord([BulkRecord(guest, n + 1) EXCEPT !.Value = 400,
                                                   !.Type = <<"heart_rate">>]), RecordTTL))
    IN  With(theirs, ListKey(guest), ListVal(<<UUID(n + 1)>>, RecordTTL))

InitBulk ==
    /\ \E n \in BulkSizes :
           /\ rdb = BulkStore(n)
           /\ nextUUID = n + 2
    /\ now = 0
    /\ ticks = 0
    /\ tokens = <<generateJWT(<<"admin">>, 0)>>
    /\ last = NoRequest
    /\ limiter = NoTraffic
    /\ flight = NoFlight
    /\ csrfTokenStore = NoCSRFTokens

BulkLimits ==
    {NoLimit, [text |-> "junk", n |-> 0]}
        \cup [text : {"int"}, n : {-1, 0, 1, MaxLimit, MaxLimit + 1, 1000}]

BulkTypeParams == {BulkTypes[i] : i \in 1..3} \cup {<<"temperature">>, EmptyStr}

NextBulk ==
    \/ LegacyLogin(HealthUsers)
    \/ GetRecords(BearerHeaders, BulkLimits, Fails)
    \/ GetStats(BearerHeaders, BulkTypeParams, Fails)

SpecBulk == InitBulk /\ [][NextBulk]_vars

----------------------------------------------------------------------------
(* SpecIso: two users of the legacy login whose names share a prefix,       *)
(* "admin" and "admin:x", and delete requests naming any identifier.        *)

IsoUsers == {<<"admin">>, <<"admin", "x">>}

IsoLogins == [json : {"ok"}, user : IsoUsers]

IsoIDs ==
    {UUID(n) : n \in 1..MaxUUID}
        \cup {<<"x">> \o UUID(n) : n \in 1..MaxUUID}
        \cup {<<"x", "list">>}

NextIso ==
    \/ LegacyLogin(IsoLogins)
    \/ CreateRecord(BearerHeaders, OneRecord, NoFail)
    \/ GetRecords(BearerHeaders, {NoLimit}, NoFail)
    \/ GetStats(BearerHeaders, {<<"heart_rate">>}, NoFail)
    \/ DeleteRecord(BearerHeaders, IsoIDs, NoFail)

SpecIso == Init /\ [][NextIso]_vars

----------------------------------------------------------------------------
(* SpecDelete: records of two types created, read and deleted, the delete   *)
(* requests naming record identifiers and other strings.                    *)

DeleteIDs ==
    {UUID(n) : n \in 1..MaxUUID}
        \cup {<<"list">>, <<"stats", "heart_rate">>, <<"nope">>, EmptyStr}

DeleteRecords ==
    {RecordRequest(ty, 60, "u", NoRecordedAt) : ty \in {<<"heart_rate">>, <<"weight">>}}

NextDelete ==
    \/ LegacyLogin(OneLegacy)
    \/ CreateRecord(BearerHeaders, DeleteRecords, NoFail)
    \/ GetRecords(BearerHeaders, {NoLimit}, NoFail)
    \/ GetStats(BearerHeaders, {<<"heart_rate">>}, NoFail)
    \/ DeleteRecord(BearerHeaders, DeleteIDs, NoFail)

SpecDelete == Init /\ [][NextDelete]_vars

----------------------------------------------------------------------------
(* SpecInactive: the store holds the record registerHandler wrote for       *)
(* a@x.io with password "password1", its active flag since cleared or not   *)
(* by an operator; then registration and login as in SpecAuth.              *)

StoredUser(active) ==
    LET user == NewUser(UUID(1), EmailA, HashPassword("password1"), "Alice", 0)
    IN  StringVal([MarshalUser(user) EXCEPT !.active = active], UserTTL)

InitInactive ==
    /\ \E active \in BOOLEAN : rdb = With(Empty, UserKey(EmailA), StoredUser(active))
    /\ now = 0
    /\ ticks = 0
    /\ nextUUID = 2
    /\ tokens = <<>>
    /\ last = NoRequest
    /\ limiter = NoTraffic
    /\ flight = NoFlight
    /\ csrfTokenStore = NoCSRFTokens

SpecInactive == InitInactive /\ [][NextAuth]_vars

----------------------------------------------------------------------------
(* SpecRate: the rate limiting middleware of the router, for the requests   *)
(* of one client address.  The limiter's clock counts units of 30 ns.       *)

NanosPerUnit == 30

\* httprate.LimitByIP(60, 1*60): the second argument is a time.Duration, a
\* number of nanoseconds.
RequestLimit == 60
WindowLength == (1 * 60) \div NanosPerUnit

\* One minute, in units of the limiter's clock.
OneMinute == 60 * (1000000000 \div NanosPerUnit)

\* The counters as seen at time t: the count of the window t falls in and
\* the count of the window before it.
Rotate(l, t) ==
    LET window == t - (t % WindowLength)
    IN  IF window = l.window THEN l
        ELSE IF window = l.window + WindowLength
        THEN [l EXCEPT !.window = window, !.prev = l.curr, !.curr = 0]
        ELSE [l EXCEPT !.window = window, !.prev = 0, !.curr = 0]

\* The sliding window estimate: the previous window's count weighted by the
\* part of it still inside the window that ends now, plus the current count;
\* the request is limited when the estimate has reached the limit.
\* Compared after multiplying through by WindowLength.
Limited(l, t) ==
    l.prev * (WindowLength - (t - l.window)) + l.curr * WindowLength
        >= RequestLimit * WindowLength

LimitByIP(l, t) ==
    LET r == Rotate(l, t)
    IN  IF Limited(r, t)
        THEN [r EXCEPT !.limited = r.limited + 1]
        ELSE [r EXCEPT !.curr = r.curr + 1, !.served = r.served + 1]

\* A request of the client arrives at the router.
Arrive ==
    /\ limiter.served + limiter.limited < MaxArrivals
    /\ limiter' = LimitByIP(limiter, limiter.clock)
    /\ UNCHANGED <<rdb, now, ticks, nextUUID, tokens, last, flight, csrfTokenStore>>

\* The limiter's clock moves on.
Tick ==
    /\ limiter.clock < MaxRateClock
    /\ limiter' = [limiter EXCEPT !.clock = limiter.clock + 1]
    /\ UNCHANGED <<rdb, now, ticks, nextUUID, tokens, last, flight, csrfTokenStore>>

NextRate ==
    \/ Arrive
    \/ Tick

SpecRate == Init /\ [][NextRate]_vars

----------------------------------------------------------------------------
(* SpecLegacy: a registered user, and the legacy login called with that     *)
(* user's identifier or another name.                                       *)

LegacyIDs == [json : {"ok"}, user : {UUID(1), <<"admin">>}]

NextLegacy ==
    \/ Register(OneRegister, NoFail)
    \/ LegacyLogin(LegacyIDs)
    \/ Me(BearerHeaders)
    \/ CreateRecord(BearerHeaders, OneRecord, NoFail)
    \/ GetRecords(BearerHeaders, {NoLimit}, NoFail)

SpecLegacy == Init /\ [][NextLegacy]_vars

----------------------------------------------------------------------------
(* SpecRace: requests served concurrently.  A request in flight is a record *)
(* of flight holding the handler's position (pc) and its local variables;   *)
(* each step of a request in flight is one Redis command of its handler,    *)
(* and any other request may take steps in between.                         *)

\* A create-record body that passes decoding and validation.
WellFormedRecord(req) ==
    /\ req.size = "ok" /\ req.json = "ok"
    /\ ValidHealthRecordInput([Type |-> req.type, Value |-> req.value, Unit |-> req.unit])

InFlight(op, auth, user, req, id, pc) ==
    [op |-> op, pc |-> pc, auth |-> auth, user |-> user, req |-> req, id |-> id,
     recordIDs |-> <<>>, i |-> 1, records |-> <<>>, ops |-> <<>>]

Drop(f, n) == SubSeq(f, 1, n - 1) \o SubSeq(f, n + 1, Len(f))

\* The request in flight at position n issues its command and moves on.
Proceed(n, db, r) ==
    /\ rdb' = db
    /\ flight' = [flight EXCEPT ![n] = r]
    /\ UNCHANGED <<now, ticks, nextUUID, tokens, last, limiter, csrfTokenStore>>

\* The request in flight at position n issues its last command, if any, and
\* is answered.
Complete(n, db, route, resp, ops) ==
    /\ rdb' = db
    /\ flight' = Drop(flight, n)
    /\ last' = [route |-> route, auth |-> flight[n].auth, req |-> flight[n].req,
                fail |-> {}, next |-> TRUE, user |-> flight[n].user,
                resp |-> resp, ops |-> ops]
    /\ UNCHANGED <<now, ticks, nextUUID, tokens, limiter, csrfTokenStore>>

\* createHealthRecordHandler up to its first Redis command: the request is
\* authenticated, decoded and validated, and the record's id is drawn.
BeginCreate(auths, reqs) ==
    \E auth \in auths, req \in reqs :
        LET mw == setupRouter("create", auth, now)
        IN  /\ mw.next
            /\ WellFormedRecord(req)
            /\ Len(flight) < MaxFlight
            /\ nextUUID <= MaxUUID
            /\ flight' = Append(flight,
                                InFlight("create", auth, mw.user, req, UUID(nextUUID), "set"))
            /\ nextUUID' = nextUUID + 1
            /\ UNCHANGED <<rdb, now, ticks, tokens, last, limiter, csrfTokenStore>>

\* createHealthRecordHandler, one Redis command at a time.
StepCreate(n) ==
    LET r == flight[n]
        record == [ID |-> r.id, UserID |-> r.user, Type |-> r.req.type,
                   Value |-> r.req.value, Unit |-> r.req.unit, Notes |-> r.req.notes,
                   RecordedAt |-> ParseRecordedAt(r.req.recorded_at, now), CreatedAt |-> now]
        recordKey == RecordKey(r.user, r.id)
        listKey == ListKey(r.user)
        statsKey == StatsKey(r.user, r.req.type)
    IN  /\ r.op = "create"
        /\ \/ /\ r.pc = "set"
              /\ Proceed(n, RSet(rdb, recordKey, MarshalRecord(record), now + RecordTTL, TRUE).db,
                         [r EXCEPT !.pc = "lpush", !.ops = Append(r.ops, Op("SET", recordKey))])
           \/ /\ r.pc = "lpush"
              /\ Proceed(n, RLPush(rdb, listKey, r.id, TRUE).db,
                         [r EXCEPT !.pc = "expire", !.ops = Append(r.ops, Op("LPUSH", listKey))])
           \/ /\ r.pc = "expire"
              /\ Proceed(n, RExpire(rdb, listKey, now + RecordTTL, TRUE).db,
                         [r EXCEPT !.pc = "del", !.ops = Append(r.ops, Op("EXPIRE", listKey))])
           \/ /\ r.pc = "del"
              /\ Complete(n, RDel(rdb, statsKey, TRUE).db, "create", Resp(201, record),
                          Append(r.ops, Op("DEL", statsKey)))

\* getHealthStatsHandler up to its first Redis command.
BeginStats(auths, types) ==
    \E auth \in auths, recordType \in types :
        LET mw == setupRouter("stats", auth, now)
        IN  /\ mw.next
            /\ recordType # EmptyStr
            /\ Len(flight) < MaxFlight
            /\ flight' = Append(flight,
                                InFlight("stats", auth, mw.user, recordType, EmptyStr, "get"))
            /\ UNCHANGED <<rdb, now, ticks, nextUUID, tokens, last, limiter, csrfTokenStore>>

\* getHealthStatsHandler, one Redis command at a time: the cache lookup, the
\* LRANGE of the index, a GET per record id, and the SET of the result.
StepStats(n) ==
    LET r == flight[n]
        statsKey == StatsKey(r.user, r.req)
        listKey == ListKey(r.user)
    IN  /\ r.op = "stats"
        /\ \/ /\ r.pc = "get"
              /\ LET cached == RGet(rdb, statsKey, TRUE)
                 IN  IF ~cached.err
                     THEN Complete(n, rdb, "stats",
                                   Resp(200, [cache |-> "HIT", stats |-> UnmarshalStats(cached.val)]),
                                   <<Op("GET", statsKey)>>)
                     ELSE Proceed(n, rdb, [r EXCEPT !.pc = "lrange",
                                                    !.ops = <<Op("GET", statsKey)>>])
           \/ /\ r.pc = "lrange"
              /\ LET recordIDs == RLRange(rdb, listKey, 0, -1, TRUE).val
                 IN  Proceed(n, rdb, [r EXCEPT !.pc = IF recordIDs = <<>> THEN "set" ELSE "fetch",
                                               !.recordIDs = recordIDs,
                                               !.ops = Append(r.ops, Op("LRANGE", listKey))])
           \/ /\ r.pc = "fetch"
              /\ LET id == r.recordIDs[r.i]
                     got == FetchRecords(rdb, r.user, <<id>>, {})
                 IN  Proceed(n, rdb, [r EXCEPT !.pc = IF r.i = Len(r.recordIDs)
                                                      THEN "set" ELSE "fetch",
                                               !.i = r.i + 1,
                                               !.records = r.records \o got,
                                               !.ops = Append(r.ops, Op("GET", RecordKey(r.user, id)))])
           \/ /\ r.pc = "set"
              /\ LET matching == OfType(r.records, r.req)
                     values == ValuesOf(matching)
                     stats == [UserID |-> r.user, Type |-> r.req,
                               Count |-> Len(values),
                               Average |-> calculateAverage(values),
                               Min |-> calculateMin(values),
                               Max |-> calculateMax(values),
                               LastRecord |-> LatestFrom(ZeroTime, matching)]
                 IN  IF Len(values) > 0
                     THEN Complete(n, RSet(rdb, statsKey, MarshalStats(stats), now + StatsTTL, TRUE).db,
                                   "stats", Resp(200, [cache |-> "MISS", stats |-> stats]),
                                   Append(r.ops, Op("SET", statsKey)))
                     ELSE Complete(n, rdb, "stats",
                                   Resp(200, [cache |-> "MISS", stats |-> ZeroStats]), r.ops)

RaceRecords == {RecordRequest(<<"heart_rate">>, v, "u", NoRecordedAt) : v \in {60, 72}}

NextRace ==
    \/ LegacyLogin(OneLegacy)
    \/ BeginCreate(BearerHeaders, RaceRecords)
    \/ \E n \in DOMAIN flight : StepCreate(n)
    \/ BeginStats(BearerHeaders, {<<"heart_rate">>})
    \/ \E n \in DOMAIN flight : StepStats(n)
    \/ GetStats(BearerHeaders, {<<"heart_rate">>}, NoFail)

SpecRace == Init /\ [][NextRace]_vars

----------------------------------------------------------------------------
(* SpecRegister: registrations served concurrently, one Redis command per   *)
(* step.  An answered registration stays in flight with its response (pc    *)
(* "done") and the rank of its SET among the SETs so far (wrote), so that   *)
(* the responses of two registrations can be compared.                      *)

Registering(req) ==
    [op |-> "register", pc |-> "get", auth |-> NoAuth, user |-> EmptyStr, req |-> req,
     id |-> EmptyStr, t |-> 0, wrote |-> 0, resp |-> Resp(0, NoJSON), ops |-> <<>>]

\* The registration in flight at position n is answered.
Answer(n, db, r, resp) ==
    /\ rdb' = db
    /\ flight' = [flight EXCEPT ![n] = [r EXCEPT !.pc = "done", !.resp = resp]]
    /\ tokens' = Keep(tokens, resp)
    /\ last' = [route |-> "register", auth |-> NoAuth, req |-> r.req, fail |-> {},
                next |-> TRUE, user |-> EmptyStr, resp |-> resp, ops |-> r.ops]
    /\ UNCHANGED <<now, ticks, nextUUID, limiter, csrfTokenStore>>

\* registerHandler up to its first Redis command: the body is decoded and
\* validated.
BeginRegister(reqs) ==
    \E req \in reqs :
        /\ req.size = "ok" /\ req.json = "ok"
        /\ ValidRegisterRequest(req)
        /\ Len(flight) < MaxFlight
        /\ flight' = Append(flight, Registering(req))
        /\ UNCHANGED <<rdb, now, ticks, nextUUID, tokens, last, limiter, csrfTokenStore>>

\* registerHandler, one Redis command at a time: the presence check, then
\* (the password hashed, the identifier drawn) the SET of the user record.
StepRegister(n) ==
    LET r == flight[n]
        userKey == UserKey(r.req.email)
    IN  /\ r.op = "register"
        /\ \/ /\ r.pc = "get"
              /\ LET found == RGet(rdb, userKey, TRUE)
                     got == [r EXCEPT !.ops = <<Op("GET", userKey)>>]
                 IN  IF ~found.err
                     THEN /\ Answer(n, rdb, got, Resp(409, ErrorBody("Email already registered")))
                     ELSE /\ nextUUID <= MaxUUID
                          /\ rdb' = rdb
                          /\ flight' = [flight EXCEPT ![n] = [got EXCEPT !.pc = "set",
                                                                         !.id = UUID(nextUUID),
                                                                         !.t = now]]
                          /\ nextUUID' = nextUUID + 1
                          /\ UNCHANGED <<now, ticks, tokens, last, limiter, csrfTokenStore>>
           \/ /\ r.pc = "set"
              /\ LET user == NewUser(r.id, r.req.email, HashPassword(r.req.password),
                                     r.req.full_name, r.t)
                     stored == RSet(rdb, userKey, MarshalUser(user), now + UserTTL, TRUE)
                     rank == 1 + Cardinality({i \in DOMAIN flight : flight[i].wrote > 0})
                 IN  Answer(n, stored.db,
                            [r EXCEPT !.wrote = rank, !.ops = Append(r.ops, Op("SET", userKey))],
                            Resp(201, [token |-> generateJWT(user.ID, now),
                                       expires_in |-> ExpiresIn,
                                       user |-> PublicUser(user)]))

RaceRegistrations ==
    [size : {"ok"}, json : {"ok"}, email : {EmailA, EmailB},
     password : {"password1", "password2"}, full_name : {"Alice"}]

NextRegister ==
    \/ BeginRegister(RaceRegistrations)
    \/ \E n \in DOMAIN flight : StepRegister(n)
    \/ Me(BearerHeaders)

SpecRegister == Init /\ [][NextRegister]_vars

----------------------------------------------------------------------------
(* SpecFault: the health record routes for one user while single Redis      *)
(* commands fail during a request.                                          *)

WriteCommands == {"SET", "LPUSH", "EXPIRE", "DEL"}

SingleFails == {{}} \cup {{cmd} : cmd \in AllCommands}

NextFault ==
    \/ LegacyLogin(OneLegacy)
    \/ Register(OneRegister, SingleFails)
    \/ CreateRecord(BearerHeaders, RaceRecords, SingleFails)
    \/ GetRecords(BearerHeaders, {NoLimit}, SingleFails)
    \/ GetStats(BearerHeaders, {<<"heart_rate">>}, SingleFails)
    \/ DeleteRecord(BearerHeaders, {UUID(n) : n \in 1..MaxUUID}, SingleFails)

SpecFault == Init /\ [][NextFault]_vars

----------------------------------------------------------------------------
(* SpecExpiry: one user creating and listing records over weeks, logging in *)
(* again as tokens run out, while Redis drops the keys whose time to live   *)
(* has run out.                                                             *)

Day == 24 * Hour

\* Time passes, up to MaxExpiries times.
Elapse(steps) ==
    \E d \in steps :
        /\ ticks < MaxExpiries
        /\ now' = now + d
        /\ ticks' = ticks + 1
        /\ rdb' = Purge(rdb, now + d)
        /\ UNCHANGED <<nextUUID, tokens, last, limiter, flight, csrfTokenStore>>

NextExpiry ==
    \/ LegacyLogin(OneLegacy)
    \/ CreateRecord(BearerHeaders, RaceRecords, NoFail)
    \/ GetRecords(BearerHeaders, {NoLimit}, NoFail)
    \/ Elapse({11 * Day, 20 * Day})

SpecExpiry == Init /\ [][NextExpiry]_vars

----------------------------------------------------------------------------
(* SpecMix: create-record and delete-record requests of one user served     *)
(* concurrently, one Redis command per step, the store up and nothing       *)
(* expiring.  A delete names the identifier of a record whose create was    *)
(* answered, or the string "list".                                          *)

\* The identifiers the client has been handed: drawn, and no longer held by
\* a create in flight.
KnownIDs ==
    {UUID(n) : n \in 1..(nextUUID - 1)}
        \ {flight[i].id : i \in {j \in DOMAIN flight : flight[j].op = "create"}}

\* deleteHealthRecordHandler up to its first Redis command.
BeginDelete(auths, ids) ==
    \E auth \in auths, recordID \in ids :
        LET mw == setupRouter("delete", auth, now)
        IN  /\ mw.next
            /\ recordID # EmptyStr
            /\ Len(flight) < MaxFlight
            /\ flight' = Append(flight,
                                InFlight("delete", auth, mw.user, recordID, recordID, "del"))
            /\ UNCHANGED <<rdb, now, ticks, nextUUID, tokens, last, limiter, csrfTokenStore>>

\* deleteHealthRecordHandler, one Redis command at a time.
StepDelete(n) ==
    LET r == flight[n]
        recordKey == RecordKey(r.user, r.id)
        listKey == ListKey(r.user)
    IN  /\ r.op = "delete"
        /\ \/ /\ r.pc = "del"
              /\ Proceed(n, RDel(rdb, recordKey, TRUE).db,
                         [r EXCEPT !.pc = "lrem", !.ops = <<Op("DEL", recordKey)>>])
           \/ /\ r.pc = "lrem"
              /\ Complete(n, RLRem(rdb, listKey, r.id, TRUE).db, "delete",
                          Resp(200, [message |-> "Record deleted successfully"]),
                          Append(r.ops, Op("LREM", listKey)))

NextMix ==
    \/ LegacyLogin(OneLegacy)
    \/ BeginCreate(BearerHeaders, OneRecord)
    \/ \E n \in DOMAIN flight : StepCreate(n)
    \/ BeginDelete(BearerHeaders, KnownIDs \cup {<<"list">>})
    \/ \E n \in DOMAIN flight : StepDelete(n)

SpecMix == Init /\ [][NextMix]_vars

----------------------------------------------------------------------------
(* SpecFrame: every route of the router with every kind of body and query   *)
(* parameter, for callers holding good tokens or none, the store up.        *)

NextFrame ==
    \/ Register(RegisterRequests, NoFail)
    \/ Login(LoginRequests, NoFail)
    \/ LegacyLogin(LegacyPayloads)
    \/ Logout(BearerHeaders)
    \/ Me(BearerHeaders)
    \/ CreateUser(BearerHeaders, UserInputs)
    \/ CreateRecord(BearerHeaders, RecordRequests, NoFail)
    \/ GetRecords(BearerHeaders, LimitParams, NoFail)
    \/ GetStats(BearerHeaders, TypeParams, NoFail)
    \/ DeleteRecord(BearerHeaders, IDParams, NoFail)

SpecFrame == Init /\ [][NextFrame]_vars

----------------------------------------------------------------------------
(* SpecCSRF: the CSRF scaffold.  csrfTokenStore is a Go map shared by all   *)
(* goroutines with no lock.  GenerateCSRFToken is one step; a call of       *)
(* ValidateCSRFToken is in flight from its map lookup to its delete, and    *)
(* other calls may take steps in between.  A returned call stays in flight  *)
(* with its result (pc "done").  Unsynchronised access to a map while it is *)
(* written is a data race: the calls either interleave or the runtime ends  *)
(* the process ("fatal error: concurrent map read and map write").          *)

\* base64 of 32 random bytes: the n-th value drawn.
CSRFToken(n) == <<"csrf", ToString(n)>>

GenerateCSRFToken ==
    /\ nextUUID <= MaxUUID
    /\ csrfTokenStore' =
           [token \in DOMAIN csrfTokenStore \cup {CSRFToken(nextUUID)} |->
               IF token = CSRFToken(nextUUID) THEN now + CSRFTokenExpiry
               ELSE csrfTokenStore[token]]
    /\ nextUUID' = nextUUID + 1
    /\ UNCHANGED <<rdb, now, ticks, tokens, last, limiter, flight>>

Validating(token) ==
    [op |-> "validate", pc |-> "lookup", token |-> token, expiry |-> 0, at |-> 0,
     result |-> FALSE]

\* A call of ValidateCSRFToken begins.
BeginValidate(submitted) ==
    \E token \in submitted :
        /\ Len(flight) < MaxFlight
        /\ flight' = Append(flight, Validating(token))
        /\ UNCHANGED <<rdb, now, ticks, nextUUID, tokens, last, limiter, csrfTokenStore>>

\* ValidateCSRFToken, one map operation at a time: the lookup, then the
\* comparison with time.Now() and the delete.
StepValidate(n) ==
    LET r == flight[n]
    IN  /\ r.op = "validate"
        /\ \/ /\ r.pc = "lookup"
              /\ flight' = [flight EXCEPT ![n] =
                               IF r.token \in DOMAIN csrfTokenStore
                               THEN [r EXCEPT !.pc = "delete",
                                              !.expiry = csrfTokenStore[r.token]]
                               ELSE [r EXCEPT !.pc = "done", !.at = now, !.result = FALSE]]
              /\ UNCHANGED csrfTokenStore
           \/ /\ r.pc = "delete"
              /\ flight' = [flight EXCEPT ![n] =
                               [r EXCEPT !.pc = "done", !.at = now, !.result = now < r.expiry]]
              /\ csrfTokenStore' =
                     [token \in DOMAIN csrfTokenStore \ {r.token} |-> csrfTokenStore[token]]
        /\ UNCHANGED <<rdb, now, ticks, nextUUID, tokens, last, limiter>>

\* Two calls are inside the map at once, one of them about to write: the
\* runtime may end the process, and the map is gone with it.
Fatal ==
    /\ \E i, j \in DOMAIN flight :
           /\ i # j
           /\ flight[i].op = "validate" /\ flight[i].pc = "delete"
           /\ flight[j].op = "validate" /\ flight[j].pc \in {"lookup", "delete"}
    /\ flight' = [n \in DOMAIN flight |->
                     IF flight[n].pc = "done" THEN flight[n]
                     ELSE [flight[n] EXCEPT !.pc = "fatal"]]
    /\ csrfTokenStore' = NoCSRFTokens
    /\ UNCHANGED <<rdb, now, ticks, nextUUID, tokens, last, limiter>>

NextCSRF ==
    \/ GenerateCSRFToken
    \/ BeginValidate({CSRFToken(n) : n \in 1..MaxUUID})
    \/ \E n \in DOMAIN flight : StepValidate(n)
    \/ Fatal
    \/ Elapse({5 * Minute, 10 * Minute})

SpecCSRF == Init /\ [][NextCSRF]_vars

----------------------------------------------------------------------------
(* Properties *)

\* A step that serves or rejects a request on one of the routes: the clock
\* stands still and last becomes the request.
RequestOn(routes) == now' = now /\ last'.route \in routes

WellFormed(req) == req.size = "ok" /\ req.json = "ok"

IssuedToken(resp) == resp.status \in {200, 201} /\ "token" \in DOMAIN resp.body

\* A token bearing the server's signature over its payload.
ServerSigned(tk) ==
    tk.form = "jws" /\ tk.alg \in HMACMethods /\ tk.mac = HMAC(tk.alg, tk.payload, JWTSecret)

\* The header of C3: absent or not a bearer header, or a token that is
\* malformed, wrongly signed or expired at time t.
BadHeader(h, t) ==
    \/ h.prefix # "Bearer "
    \/ h.token.form # "jws"
    \/ ~ServerSigned(h.token)
    \/ h.token.payload.exp <= t

GoodHeader(h, t) ==
    h.prefix = "Bearer " /\ ServerSigned(h.token) /\ t < h.token.payload.exp

\* C1: after a successful registration, a login with the same email and
\* password while the user record is still in the store answers 200 with a
\* token.
C1_LoginAfterRegister ==
    [][(/\ last.route = "register" /\ last.resp.status = 201
        /\ Exists(rdb, UserKey(last.req.email))
        /\ RequestOn({"login"}) /\ last'.fail = {} /\ WellFormed(last'.req)
        /\ last'.req.email = last.req.email
        /\ last'.req.password = last.req.password)
       => (last'.resp.status = 200 /\ IssuedToken(last'.resp))]_vars

\* C2: a token handed out by register, login or the legacy login for user u
\* is accepted by jwtMiddleware on every protected route before it expires
\* and resolves to exactly u; a held token presented before its expiry
\* reaches the handler with the subject it was signed for.
C2_RoundTrip ==
    [][RequestOn(PublicRoutes \cup ProtectedRoutes) =>
        /\ (last'.route \in {"register", "login"} /\ IssuedToken(last'.resp)) =>
               \A r \in ProtectedRoutes :
                   LET mw == setupRouter(r, Bearer(last'.resp.body.token), now)
                   IN  mw.next /\ mw.user = last'.resp.body.user.id /\ mw.user # EmptyStr
        /\ (last'.route = "legacyLogin" /\ IssuedToken(last'.resp)) =>
               \A r \in ProtectedRoutes :
                   LET mw == setupRouter(r, Bearer(last'.resp.body.token), now)
                   IN  mw.next /\ mw.user = JSONString(last'.req.user)
        /\ (last'.route \in ProtectedRoutes /\ GoodHeader(last'.auth, now)) =>
               /\ last'.next
               /\ last'.user = last'.auth.token.payload.sub
               /\ last'.route = "me" => last'.resp.body.user_id = last'.user]_vars

C2_Witness ==
    /\ last.route = "me" /\ last.resp.status = 200
    /\ last.user = UUID(1)
    /\ last.auth.token \in Held

\* C3: on every protected route a request whose Authorization header is
\* absent, not a bearer header, or carries a malformed, wrongly signed or
\* expired token is answered 401, the handler is not invoked, and no store
\* key is read or written.
C3_RejectedBeforeHandler ==
    [][(RequestOn(ProtectedRoutes) /\ BadHeader(last'.auth, now)) =>
        /\ last'.resp.status = 401
        /\ ~last'.next
        /\ last'.ops = <<>>
        /\ rdb' = rdb]_vars

C3_Witness ==
    /\ last.route = "delete" /\ last.resp.status = 401
    /\ last.auth.prefix = "Bearer " /\ last.auth.token \in Held
    /\ Exists(rdb, RecordKey(last.auth.token.payload.sub, UUID(1)))

\* C4: a login with a registered email and a wrong password gets the same
\* status and body as the same login with an email that is not registered.
C4_EnumerationResistance ==
    (/\ last.route = "login" /\ WellFormed(last.req) /\ ValidLoginRequest(last.req)
     /\ Exists(rdb, UserKey(last.req.email))
     /\ last.resp.status # 200)
    => \A email \in {EmailA, EmailB} :
           ~Exists(rdb, UserKey(email)) =>
               loginHandler(rdb, now, [last.req EXCEPT !.email = email], last.fail).resp
                   = last.resp

C4_Witness ==
    /\ last.route = "login" /\ last.fail = {} /\ WellFormed(last.req)
    /\ Exists(rdb, UserKey(last.req.email))
    /\ last.resp.status = 401
    /\ \E email \in {EmailA, EmailB} : ~Exists(rdb, UserKey(email))

\* The ids in a user's index, and the stored records among them of one type.
IndexOf(db, userID) ==
    IF Exists(db, ListKey(userID)) /\ db[ListKey(userID)].type = "list"
    THEN {db[ListKey(userID)].list[i] : i \in DOMAIN db[ListKey(userID)].list}
    ELSE {}

StoredOfType(db, userID, recordType) ==
    LET ids == {id \in IndexOf(db, userID) :
                   /\ Exists(db, RecordKey(userID, id))
                   /\ db[RecordKey(userID, id)].type = "string"}
    IN  {r \in {UnmarshalRecord(db[RecordKey(userID, id)].str) : id \in ids} :
            r.Type = recordType}

RECURSIVE Total(_)
Total(records) ==
    IF records = {} THEN 0
    ELSE LET r == CHOOSE r \in records : TRUE IN r.Value + Total(records \ {r})

\* C5: a record of type T created for user U removes U's cached statistics
\* for T and leaves those cached for every other type as they were; a
\* getStats(U, T) that follows is computed afresh and counts the new record.
C5_CreateInvalidatesStats ==
    [][RequestOn({"create", "stats"}) =>
        /\ (last'.route = "create" /\ last'.resp.status = 201) =>
               /\ ~Exists(rdb', StatsKey(last'.user, last'.req.type))
               /\ last'.resp.body.ID \in
                      {r.ID : r \in StoredOfType(rdb', last'.user, last'.req.type)}
               /\ \A other \in RecordTypes \ {last'.req.type} :
                      /\ Exists(rdb', StatsKey(last'.user, other))
                             <=> Exists(rdb, StatsKey(last'.user, other))
                      /\ Exists(rdb, StatsKey(last'.user, other)) =>
                             rdb'[StatsKey(last'.user, other)]
                                 = rdb[StatsKey(last'.user, other)]
        /\ (/\ last.route = "create" /\ last.resp.status = 201
            /\ last'.route = "stats" /\ last'.next /\ last'.fail = {}
            /\ last'.user = last.user /\ last'.req = last.req.type) =>
               /\ last'.resp.status = 200
               /\ last'.resp.body.cache = "MISS"
               /\ last'.resp.body.stats.Count
                      = Cardinality(StoredOfType(rdb, last.user, last.req.type))
               /\ last'.resp.body.stats.Count >= 1
               /\ last'.resp.body.stats.Min <= last.req.value
               /\ last'.resp.body.stats.Max >= last.req.value]_vars

C5_Witness ==
    /\ last.route = "stats" /\ last.next /\ last.fail = {}
    /\ last.resp.status = 200 /\ last.resp.body.cache = "MISS"
    /\ last.resp.body.stats.Count >= 1
    /\ \E other \in RecordTypes \ {last.req} : Exists(rdb, StatsKey(last.user, other))

\* C6: when the store answers and the statistics for (U, T) are not cached,
\* getStats returns the count, minimum, maximum and sum / count of exactly
\* the stored records listed in U's index whose type is T, and zeros when
\* there are none, however long the index is.
C6_StatsOverWholeIndex ==
    (/\ last.route = "stats" /\ last.next /\ last.fail = {}
     /\ last.resp.status = 200 /\ last.resp.body.cache = "MISS")
    => LET records == StoredOfType(rdb, last.user, last.req)
           stats == last.resp.body.stats
       IN  /\ stats.Count = Cardinality(records)
           /\ records = {} =>
                  stats.Min = 0 /\ stats.Max = 0 /\ stats.Average = ZeroFloat
           /\ records # {} =>
                  /\ \E r \in records : r.Value = stats.Min
                  /\ \E r \in records : r.Value = stats.Max
                  /\ \A r \in records : stats.Min <= r.Value /\ r.Value <= stats.Max
                  /\ stats.Average.num * Cardinality(records)
                         = Total(records) * stats.Average.den
                  /\ stats.Average.den > 0

C6_Witness ==
    /\ last.route = "stats" /\ last.next /\ last.fail = {}
    /\ last.resp.status = 200 /\ last.resp.body.cache = "MISS"
    /\ Cardinality(IndexOf(rdb, last.user)) > MaxLimit
    /\ last.resp.body.stats.Count > 1
    /\ last.resp.body.stats.Count < Cardinality(IndexOf(rdb, last.user))

\* C7: whatever integer limit the request carries, the list route returns
\* at most 100 records.
C7_AtMost100 ==
    (last.route = "list" /\ last.next) => Len(last.resp.body.records) <= 100

\* C8: a create-record request that is well formed but for its value is
\* answered 400 and stores nothing when the value is negative, and is
\* answered 201 with the record stored when the value is 0.
C8_ZeroAccepted ==
    (/\ last.route = "create" /\ last.next /\ last.fail = {}
     /\ WellFormed(last.req)
     /\ last.req.type \in RecordTypes /\ last.req.unit # "")
    => /\ last.req.value < 0 => (last.resp.status = 400 /\ last.ops = <<>>)
       /\ last.req.value = 0 =>
              /\ last.resp.status = 201
              /\ Exists(rdb, RecordKey(last.user, last.resp.body.ID))

\* C9: a token is issued with an expiry one hour after the time of issue,
\* and a token presented after its expiry is answered 401 on every
\* protected route without reaching the handler.
C9_ExpiresAfterOneHour ==
    [][RequestOn(PublicRoutes \cup ProtectedRoutes) =>
        /\ (last'.route \in PublicRoutes /\ IssuedToken(last'.resp)) =>
               last'.resp.body.token.payload.exp = now + 60 * Minute
        /\ (/\ last'.route \in ProtectedRoutes
            /\ last'.auth.prefix = "Bearer " /\ ServerSigned(last'.auth.token)
            /\ last'.auth.token.payload.exp < now) =>
               last'.resp.status = 401 /\ ~last'.next]_vars

C9_Witness ==
    /\ last.route \in ProtectedRoutes /\ last.resp.status = 401
    /\ last.auth.prefix = "Bearer " /\ last.auth.token \in Held
    /\ last.auth.token.payload.exp < now

\* C10: logout changes no store key, and the token that was used to log out
\* is still accepted on every protected route for as long as it has not
\* expired.
C10_LogoutIsNoOp ==
    [][/\ RequestOn({"logout"}) => (rdb' = rdb /\ last'.ops = <<>>)
       /\ (/\ last'.route = "logout" /\ last'.resp.status = 200
           /\ now' < last'.auth.token.payload.exp) =>
              \A r \in ProtectedRoutes : setupRouter(r, last'.auth, now').next
       /\ (/\ last.route = "logout" /\ last.resp.status = 200
           /\ RequestOn(ProtectedRoutes) /\ last'.auth = last.auth
           /\ now < last.auth.token.payload.exp) =>
              (last'.next /\ last'.resp.status # 401 /\ last'.user = last.user)]_vars

C10_Witness ==
    /\ last.route = "logout" /\ last.resp.status = 200
    /\ now > 0 /\ now < last.auth.token.payload.exp
    /\ Exists(rdb, ListKey(last.user))

\* The keys that hold a user's records, index and cached statistics.
KeysOf(userID) ==
    {ListKey(userID)}
        \cup {RecordKey(userID, UUID(n)) : n \in 1..MaxUUID}
        \cup {StatsKey(userID, recordType) : recordType \in RecordTypes}

\* C11: list-records and getStats answered for user U carry only data of
\* records owned by U, and a delete by U removes no record, index or stats
\* entry of another user V.
C11_UserIsolation ==
    [][(RequestOn({"list", "stats", "delete"}) /\ last'.next) =>
        /\ (last'.route = "list") =>
               \A i \in DOMAIN last'.resp.body.records :
                   last'.resp.body.records[i].UserID = last'.user
        /\ (last'.route = "stats" /\ last'.resp.status = 200) =>
               last'.resp.body.stats.UserID \in {last'.user, EmptyStr}
        /\ (last'.route = "delete") =>
               \A other \in IsoUsers \ {last'.user} :
                   \A k \in KeysOf(other) :
                       Exists(rdb, k) => (Exists(rdb', k) /\ rdb'[k] = rdb[k])]_vars

\* C12: a valid registration whose email has a stored user record, the
\* store answering the presence check, is answered 409 without a token, and
\* the store (the user record with its id and time to live included) stays
\* as it was.
C12_DuplicateEmailConflict ==
    [][(/\ RequestOn({"register"})
        /\ WellFormed(last'.req) /\ ValidRegisterRequest(last'.req)
        /\ Exists(rdb, UserKey(last'.req.email))
        /\ "GET" \notin last'.fail)
       => /\ last'.resp.status = 409
          /\ ~IssuedToken(last'.resp)
          /\ "token" \notin DOMAIN last'.resp.body
          /\ rdb' = rdb
          /\ tokens' = tokens
          /\ nextUUID' = nextUUID]_vars

C12_Witness ==
    /\ last.route = "register" /\ last.resp.status = 409 /\ last.fail = {}
    /\ Exists(rdb, UserKey(last.req.email))
    /\ now > 0

\* The key holds a health record document stored under that identifier.
IsRecord(db, userID, id) ==
    /\ Exists(db, RecordKey(userID, id))
    /\ db[RecordKey(userID, id)].type = "string"
    /\ "id" \in DOMAIN db[RecordKey(userID, id)].str
    /\ db[RecordKey(userID, id)].str.id = id

RecordsOf(db, userID) ==
    {k \in DOMAIN db : \E n \in 1..MaxUUID : k = RecordKey(userID, UUID(n))}

\* C13: a delete naming an identifier that is not a stored record of the
\* caller is answered 200 and leaves the caller's records and index as they
\* were; a second delete of the same identifier changes nothing more.
C13_DeleteIdempotent ==
    [][(/\ RequestOn({"delete"}) /\ last'.next /\ last'.fail = {}
        /\ last'.req # EmptyStr)
       => /\ ~IsRecord(rdb, last'.user, last'.req) =>
                 /\ last'.resp.status = 200
                 /\ \A k \in RecordsOf(rdb, last'.user) \cup {ListKey(last'.user)} :
                        /\ Exists(rdb', k) <=> Exists(rdb, k)
                        /\ Exists(rdb, k) => rdb'[k] = rdb[k]
          /\ deleteHealthRecordHandler(rdb', now, last'.user, last'.req, {}).db = rdb']_vars

\* The identifiers in a user's index whose record is stored.
Listed(db, userID) == {id \in IndexOf(db, userID) : IsRecord(db, userID, id)}

\* C14: a delete answered 200 of a stored record R of the caller removes R's
\* key and R's entry in the caller's index and leaves the caller's other
\* records and index entries alone; a removed record or index entry never
\* comes back, and list-records returns only indexed, stored records (all
\* of them when the limit does not cut the listing short).
C14_DeletedRecordGone ==
    [][/\ (/\ RequestOn({"delete"}) /\ last'.next /\ last'.resp.status = 200
           /\ IsRecord(rdb, last'.user, last'.req)) =>
              /\ ~Exists(rdb', RecordKey(last'.user, last'.req))
              /\ last'.req \notin IndexOf(rdb', last'.user)
              /\ \A id \in IndexOf(rdb, last'.user) \ {last'.req} :
                     /\ id \in IndexOf(rdb', last'.user)
                     /\ IsRecord(rdb, last'.user, id) =>
                            /\ Exists(rdb', RecordKey(last'.user, id))
                            /\ rdb'[RecordKey(last'.user, id)]
                                   = rdb[RecordKey(last'.user, id)]
       /\ \A n \in 1..MaxUUID : \A u \in {<<"admin">>, <<"guest">>} :
              n < nextUUID =>
                  /\ ~Exists(rdb, RecordKey(u, UUID(n))) => ~Exists(rdb', RecordKey(u, UUID(n)))
                  /\ UUID(n) \notin IndexOf(rdb, u) => UUID(n) \notin IndexOf(rdb', u)
       /\ (RequestOn({"list"}) /\ last'.next /\ last'.fail = {}) =>
              LET ids == {last'.resp.body.records[i].ID : i \in DOMAIN last'.resp.body.records}
                  limit == ParseLimit(last'.req)
              IN  /\ ids \subseteq Listed(rdb, last'.user)
                  /\ (limit <= 0 \/ limit >= Cardinality(IndexOf(rdb, last'.user))) =>
                         ids = Listed(rdb, last'.user)]_vars

C14_Witness ==
    /\ last.route = "list" /\ last.next /\ last.fail = {} /\ nextUUID = 3
    /\ Len(last.resp.body.records) = 1
    /\ last.resp.body.records[1].ID = UUID(2)
    /\ IndexOf(rdb, last.user) = {UUID(2)}
    /\ \A u \in {<<"admin">>, <<"guest">>} :
           ~Exists(rdb, RecordKey(u, UUID(1))) /\ UUID(1) \notin IndexOf(rdb, u)

\* C15: when a Redis command issued by login, register, list-records or
\* delete-record fails because the store is unavailable, the request is
\* answered with a 5xx status.
C15_StoreFailureIs5xx ==
    (/\ last.route \in {"login", "register", "list", "delete"} /\ last.next
     /\ \E i \in DOMAIN last.ops : last.ops[i].cmd \in last.fail)
    => last.resp.status \in 500..599

C17_AtMost60PerMinute ==
    limiter.clock < OneMinute => limiter.served <= 60

\* The statistics are the count, minimum, maximum and mean of the records.
AggregateOf(stats, records) ==
    /\ stats.Count = Cardinality(records)
    /\ records = {} => (stats.Min = 0 /\ stats.Max = 0 /\ stats.Average = ZeroFloat)
    /\ records # {} =>
           /\ \E r \in records : r.Value = stats.Min
           /\ \E r \in records : r.Value = stats.Max
           /\ \A r \in records : stats.Min <= r.Value /\ r.Value <= stats.Max
           /\ stats.Average.num * Cardinality(records) = Total(records) * stats.Average.den

\* C18: with no request in flight, every cached statistics entry for (U, T)
\* equals the aggregate over U's stored records of type T; so after a
\* record of type T is deleted the cache no longer counts it.
C18_CacheCoherent ==
    flight = NoFlight =>
        \A recordType \in RecordTypes :
            LET k == StatsKey(<<"admin">>, recordType)
            IN  (Exists(rdb, k) /\ rdb[k].type = "string") =>
                    AggregateOf(UnmarshalStats(rdb[k].str),
                                StoredOfType(rdb, <<"admin">>, recordType))

\* The identifiers of the users whose record is stored.
RegisteredIDs(db) ==
    {db[UserKey(email)].str.id : email \in {e \in {EmailA, EmailB} : Exists(db, UserKey(e))}}

\* C19: a token that jwtMiddleware accepts as a registered user U is handed
\* out only by the registration that created U or by a login with U's
\* password.
C19_TokenNeedsPassword ==
    (/\ IssuedToken(last.resp)
     /\ last.resp.body.token.payload.sub \in RegisteredIDs(rdb)
     /\ setupRouter("me", Bearer(last.resp.body.token), now).next)
    => last.route \in {"register", "login"}

\* C20: once the concurrent create-record and getStats requests for (U, T)
\* have all been answered, the next getStats(U, T) counts every record whose
\* create was answered 201 (each of them stored and indexed: nothing is
\* deleted and nothing expires).
C20_EventuallyCorrectStats ==
    [][(/\ flight = NoFlight /\ flight' = NoFlight
        /\ RequestOn({"stats"}) /\ last'.next /\ last'.resp.status = 200)
       => /\ Cardinality(StoredOfType(rdb, last'.user, last'.req)) = nextUUID - 1
          /\ last'.resp.body.stats.Count = nextUUID - 1]_vars

\* The registrations answered 201 so far, as positions of flight.
Registered == {i \in DOMAIN flight : flight[i].pc = "done" /\ flight[i].resp.status = 201}

\* i and j are two registrations of one email that were both answered 201.
BothRegistered(i, j) ==
    /\ i \in Registered /\ j \in Registered /\ i # j
    /\ flight[i].req.email = flight[j].req.email

\* C21: when two concurrent registrations of one email are both answered 201,
\* their user ids differ, the store holds under the email's key the record
\* that was written last and no other, and the session middleware accepts the
\* token of either response as that response's user id.
C21_RegistrationRace ==
    \A i, j \in DOMAIN flight :
        BothRegistered(i, j) =>
            LET a == flight[i]
                b == flight[j]
                userKey == UserKey(a.req.email)
                same == {k \in Registered : flight[k].req.email = a.req.email}
                latest == CHOOSE k \in same : \A l \in same : flight[l].wrote <= flight[k].wrote
            IN  /\ a.resp.body.user.id # b.resp.body.user.id
                /\ Exists(rdb, userKey)
                /\ UnmarshalUser(rdb[userKey].str).ID = flight[latest].resp.body.user.id
                /\ \A r \in {a, b} :
                       LET mw == jwtMiddleware(Bearer(r.resp.body.token), now)
                       IN  mw.next /\ mw.user = r.resp.body.user.id

\* Two registrations of one email were both answered 201, and the one that
\* began first wrote last.
C21_Witness ==
    \E i, j \in DOMAIN flight :
        /\ BothRegistered(i, j) /\ i < j
        /\ flight[i].wrote > flight[j].wrote
        /\ flight[i].req.password # flight[j].req.password

\* C22: a create-record request during which one of its store operations
\* (SET of the record, LPUSH and EXPIRE of the index, DEL of the stats key)
\* fails is not answered 201; a 201 means the record is stored, listed in the
\* user's index, and the stats entry of its type is gone.
C22_WriteFailuresFatal ==
    [][(RequestOn({"create"}) /\ last'.next /\ last'.resp.status = 201) =>
           LET U == last'.user
               R == last'.resp.body
           IN  /\ last'.fail \cap WriteCommands = {}
               /\ Exists(rdb', RecordKey(U, R.ID))
               /\ R.ID \in IndexOf(rdb', U)
               /\ ~Exists(rdb', StatsKey(U, R.Type))]_vars

C24_IndexExpiresWithRecords ==
    \A id \in IndexOf(rdb, <<"admin">>) : Exists(rdb, RecordKey(<<"admin">>, id))

\* The index key and the stats keys of a user.
ReservedKeys(userID) ==
    {ListKey(userID)} \cup {StatsKey(userID, recordType) : recordType \in RecordTypes}

\* C25: whatever identifier a delete request names, the key its DEL addresses
\* is neither the caller's index key nor one of the caller's stats keys.
C25_NamespacesDisjoint ==
    (last.route = "delete" /\ last.next)
        => \A i \in DOMAIN last.ops :
               last.ops[i].cmd = "DEL" => last.ops[i].key \notin ReservedKeys(last.user)

\* The number of times id occurs in the index of userID.
Occurrences(db, userID, id) ==
    IF Exists(db, ListKey(userID)) /\ db[ListKey(userID)].type = "list"
    THEN Cardinality({i \in DOMAIN db[ListKey(userID)].list : db[ListKey(userID)].list[i] = id})
    ELSE 0

\* C26: when no create or delete request of the user is in flight, every
\* identifier in the user's index has a stored record and every stored record
\* of the user occurs in the index exactly once.
C26_IndexConsistent ==
    flight = NoFlight =>
        /\ \A id \in IndexOf(rdb, <<"admin">>) : IsRecord(rdb, <<"admin">>, id)
        /\ \A n \in 1..(nextUUID - 1) :
               IsRecord(rdb, <<"admin">>, UUID(n)) => Occurrences(rdb, <<"admin">>, UUID(n)) = 1

\* A request on the stats route that was answered 200 by the handler with the
\* store up, the aggregate computed rather than read from the cache.
StatsMiss ==
    /\ RequestOn({"stats"}) /\ last'.next /\ last'.fail = {}
    /\ last'.resp.status = 200 /\ last'.resp.body.cache = "MISS"

\* C27: a getStats(U, T) that finds no record of type T answers count 0 and
\* leaves the store as it was, writing no stats entry; one that finds records
\* writes its result to the stats key of (U, T) with a time to live of one
\* hour; and the getStats(U, T) that follows the create of the only record of
\* type T answers count 1.
C27_EmptyNotCached ==
    [][/\ (StatsMiss /\ last'.resp.body.stats.Count = 0)
            => /\ rdb' = rdb
               /\ \A i \in DOMAIN last'.ops : last'.ops[i].cmd # "SET"
       /\ (StatsMiss /\ last'.resp.body.stats.Count > 0)
            => LET statsKey == StatsKey(last'.user, last'.req)
               IN  /\ Exists(rdb', statsKey)
                   /\ rdb'[statsKey] = StringVal(MarshalStats(last'.resp.body.stats),
                                                 now + StatsTTL)
                   /\ rdb'[statsKey].exp - now = 60 * Minute
       /\ (/\ last.route = "create" /\ last.resp.status = 201
           /\ Cardinality(StoredOfType(rdb, last.user, last.req.type)) = 1
           /\ RequestOn({"stats"}) /\ last'.next /\ last'.fail = {}
           /\ last'.user = last.user /\ last'.req = last.req.type)
            => /\ last'.resp.status = 200
               /\ last'.resp.body.stats.Count = 1]_vars

\* Half an hour in, a getStats computed its result over one record and the
\* result is in the cache until an hour later.
C27_Witness ==
    /\ last.route = "stats" /\ last.next /\ last.resp.status = 200
    /\ last.resp.body.cache = "MISS" /\ last.resp.body.stats.Count = 1
    /\ now = 30 * Minute
    /\ Exists(rdb, StatsKey(last.user, last.req))
    /\ rdb[StatsKey(last.user, last.req)].exp = now + StatsTTL

\* The position of an identifier in the order the identifiers were drawn,
\* which is the order in which the records were created.
CreationRank(id) == CHOOSE n \in 1..nextUUID : UUID(n) = id

\* C28: list-records answers the caller's records newest first (each record
\* created after the one that follows it), and a listed, stored record left
\* out of the answer was created before every record in the answer.
C28_NewestFirst ==
    [][(RequestOn({"list"}) /\ last'.next /\ last'.fail = {} /\ last'.resp.status = 200)
       => LET records == last'.resp.body.records
              returned == {records[i].ID : i \in DOMAIN records}
          IN  /\ \A i, j \in DOMAIN records :
                     i < j => CreationRank(records[i].ID) > CreationRank(records[j].ID)
              /\ \A old \in Listed(rdb, last'.user) \ returned :
                     \A id \in returned : CreationRank(old) < CreationRank(id)]_vars

\* A listing with limit 1 of a user with two records returned the second
\* record and left out the first.
C28_Witness ==
    /\ last.route = "list" /\ last.next /\ last.fail = {}
    /\ last.req = [text |-> "int", n |-> 1]
    /\ Len(last.resp.body.records) = 1
    /\ last.resp.body.records[1].ID = UUID(2)
    /\ Listed(rdb, last.user) = {UUID(1), UUID(2)}

\* The keys on which two stores differ.
Changed(db1, db2) ==
    {k \in DOMAIN db1 \cup DOMAIN db2 :
        \/ Exists(db1, k) # Exists(db2, k)
        \/ Exists(db1, k) /\ Exists(db2, k) /\ db1[k] # db2[k]}

\* C29: a request changes the store only on the register, create-record,
\* delete-record and stats routes; list-records, me, logout, a getStats
\* answered from the cache and every request answered 400 or 401 leave every
\* key as it was; a getStats that computes its result changes no key but the
\* stats key of its user and type.
C29_Frame ==
    [][RequestOn(PublicRoutes \cup ProtectedRoutes)
       => /\ Changed(rdb, rdb') # {} => last'.route \in {"register", "create", "delete", "stats"}
          /\ last'.route \in {"list", "me", "logout"} => rdb' = rdb
          /\ last'.resp.status \in {400, 401} => rdb' = rdb
          /\ (last'.route = "stats" /\ last'.next /\ last'.resp.status = 200)
                => IF last'.resp.body.cache = "HIT"
                   THEN rdb' = rdb
                   ELSE Changed(rdb, rdb') \subseteq {StatsKey(last'.user, last'.req)}]_vars

\* A getStats was answered from the cache while the store holds a record,
\* the index and the stats entry of the caller.
C29_Witness ==
    /\ last.route = "stats" /\ last.next /\ last.resp.status = 200
    /\ last.resp.body.cache = "HIT"
    /\ Exists(rdb, StatsKey(last.user, last.req))
    /\ Listed(rdb, last.user) # {}

\* The calls of ValidateCSRFToken that returned true, as positions of flight.
Validated ==
    {i \in DOMAIN flight :
        flight[i].op = "validate" /\ flight[i].pc = "done" /\ flight[i].result}

\* C30: of the calls of ValidateCSRFToken on one token at most one returns
\* true, and a call that returns true read the clock before the token's
\* expiry, 15 minutes after its generation.
C30_OneTimeUse ==
    /\ \A i, j \in Validated : flight[i].token = flight[j].token => i = j
    /\ \A i \in Validated : flight[i].at < flight[i].expiry

====
